---- MODULE Spec2Model ----
(***************************************************************************)
(* Relay server of obsidian-live-share.                                    *)
(*                                                                         *)
(* Two engines share one HTTP server:                                      *)
(*   - the CRDT room engine    (createYjsWSS)                              *)
(*   - the control room engine (createControlWSS)                          *)
(* Each engine is modelled for one room / one document name.  A Yjs        *)
(* replica is modelled by the set of updates it has integrated, a state    *)
(* vector by the same set, and "encode state since vector" by set          *)
(* difference.                                                             *)
(***************************************************************************)
EXTENDS Integers, Sequences, FiniteSets, TLC

\* ---- bounds -------------------------------------------------------------
MaxSockets == 2        \* CRDT sockets open at the same time
MaxUpdates == 2        \* distinct local edits made by the clients
MaxObjs == 2           \* RoomState objects ever constructed for the name
MaxCleaning == 1       \* overlapping cleanupRoom calls on one RoomState
MaxAwId == 1           \* awareness client-ids the clients announce
MaxClock == 1          \* largest awareness clock a client announces
MaxCtlSockets == 2     \* control sockets open at the same time
MaxSignals == 2        \* shutdown signals the process receives
MaxListeners == 3      \* listener functions given to onChange
PersistDebounce == 2   \* clock ticks in the 5 s of the persist debounce

Sockets == 1..MaxSockets
Updates == 1..MaxUpdates
ServerAwId == 0                 \* doc.clientID of the server replica
AwIds == 1..MaxAwId             \* ids announced by clients
CtlSockets == 1..MaxCtlSockets

\* ---- CRDT engine state --------------------------------------------------
VARIABLES
  store,         \* persisted snapshot doc:<name> (set of updates)
  rooms,         \* every RoomState ever constructed, in construction order
  roomStates,    \* Map roomStates: 0 = no entry, else index into rooms
  pendingRooms,  \* Map pendingRooms: 0 = no entry, else index into rooms
  stage,         \* per socket: position of its "connection" handler ("failed":
                 \* the getOrCreateRoom it awaited has rejected)
  ready,         \* per socket: ws.readyState on the server
  sroom,         \* per socket: RoomState captured by its handlers (0 = none)
  toClient,      \* per socket: frames sent by the server, not yet read
  toServer,      \* per socket: frames sent by the client, not yet read
  cdoc,          \* per socket: the client's replica
  cstep1,        \* per socket: client has sent its step-1
  csynced,       \* per socket: client has received a step-2
  delivery,      \* "queued": toClient holds the frames a client has not
                 \* read yet; "eager": clients read at once and toClient
                 \* holds the frames written by the last step
  announced,     \* per socket (history): the ids in the added and updated
                 \* lists of the awareness updates applied with the socket
                 \* as origin
  shutdown,      \* the process: "running", "persisting" while closeAllRooms
                 \* awaits persistDoc, "done" after it, "crashed" after an
                 \* exception nothing caught
  closing        \* the RoomState closeAllRooms is persisting (0 = none)

yvars == <<store, rooms, roomStates, pendingRooms, stage, ready, sroom,
           toClient, toServer, cdoc, cstep1, csynced, delivery, announced,
           shutdown, closing>>

\* ---- control engine state -----------------------------------------------
VARIABLES
  serverRoom,        \* the room record getRoom(roomId) returns
  controlRooms,      \* the keys of the rooms map of createControlWSS
  cclients,          \* room.clients: socket -> ControlClient
  corder,            \* room.clients: the sockets in insertion order
  pendingApprovals,  \* room.pendingApprovals: user-id -> socket
  cready,            \* per control socket: ws.readyState
  cout,              \* per control socket: messages written by the last step
  identified,        \* per control socket (history): the connection has
                     \* delivered a presence-update carrying a user-id
  recording          \* the behaviour keeps the histories (identified, the
                     \* log of a RoomState)

cvars == <<serverRoom, controlRooms, cclients, corder, pendingApprovals, cready, cout, identified,
           recording>>

\* ---- gateway state ------------------------------------------------------
VARIABLES
  requireAuth,   \* REQUIRE_GITHUB_AUTH
  registry,      \* ids of the rooms getRoom finds
  req,           \* the upgrade request handled last
  raw,           \* its raw socket: "none" before the first request,
                 \* "upgraded", "destroyed" or, left as it was by a
                 \* handler that threw, "open"
  roomStore,     \* ids of the rooms the persistence holds
  http           \* the /rooms request answered last and its status

gvars == <<requireAuth, registry, req, raw, roomStore, http>>

\* ---- process state ------------------------------------------------------
VARIABLES
  shutdownCalls,  \* per shutdown() call: where it stands ("idle" before the
                  \* signal, "persisting" in closeAllRooms awaiting persistDoc
                  \* ("rejecting" when that promise will reject),
                  \* "closing" awaiting persistence.close()) and the RoomState
                  \* it is persisting
  closeCount,     \* calls of persistence.close() so far
  dbStatus        \* the store: "open", "closing" once close() is called,
                  \* "closed"

pvars == <<shutdownCalls, closeCount, dbStatus>>

\* ---- plugin: ConnectionStateManager --------------------------------------
VARIABLES
  state,          \* this.state
  listeners,      \* this.listeners, in the order of the onChange calls
  subscription,   \* per listener function: "none" before its onChange,
                  \* "subscribed", "unsubscribed" once its unsubscribe
                  \* function has run
  calls           \* the listener calls of the last transition, in order:
                  \* <<listener, state argument, event argument>>

mvars == <<state, listeners, subscription, calls>>

vars == <<yvars, cvars, gvars, pvars, mvars>>

\* ---- frames -------------------------------------------------------------
messageSync == 0
messageAwareness == 1
messageFileOp == 2

\* A frame: t is the outer message type, k the sync sub-message
\* (1 = step-1, 2 = step-2, 3 = update; 0 when t is not messageSync),
\* u the set of updates / the state vector carried.
Frame(t, k, u) == [t |-> t, k |-> k, u |-> u, id |-> 0, clock |-> 0, live |-> FALSE]
Step1Frame(sv) == Frame(messageSync, 1, sv)
Step2Frame(u) == Frame(messageSync, 2, u)
UpdateFrame(u) == Frame(messageSync, 3, u)
FileOpFrame == Frame(messageFileOp, 0, {})
\* client -> server awareness frame: one entry (id, clock, state or null)
AwEntryFrame(id, clock, live) ==
  [Frame(messageAwareness, 0, {}) EXCEPT !.id = id, !.clock = clock, !.live = live]
\* server -> client awareness frame for a list of changed ids
AwFrame(ids) == Frame(messageAwareness, 0, ids)

\* ---- helpers ------------------------------------------------------------
\* A RoomState: doc and awareness are constructed by createRoom before the
\* load, clients / clientAwarenessIds after it.  awStates is the key set of
\* awareness.getStates() (it holds the server's own id from construction),
\* awMeta the clock per announced id (-1 = no meta entry).  persistAge is
\* the number of ticks since the persist timer was armed, age the number
\* of ticks since an update was applied to the replica (-1 = not applied
\* by a client's frame), log (history) the updates in the order they were
\* applied to the replica.
NewRoomState ==
  [doc |-> {}, awStates |-> {ServerAwId}, awMeta |-> [i \in AwIds |-> -1],
   clients |-> {}, clientAwarenessIds |-> <<>>,
   cleanupTimer |-> "none", persistTimer |-> FALSE, persistAge |-> 0,
   age |-> [u \in Updates |-> -1], log |-> <<>>,
   loaded |-> FALSE, cleaning |-> 0, destroyed |-> FALSE]

\* A send that puts the frame in front of the frames not yet delivered.
SendFirst(q, s, f) == IF ready[s] = "OPEN" THEN [q EXCEPT ![s] = <<f>> \o @] ELSE q

\* ws.send(frame): a frame written to a socket that is not OPEN is lost.
Send(q, s, f) == IF ready[s] = "OPEN" THEN [q EXCEPT ![s] = Append(@, f)] ELSE q

\* ws.send(frame) on a socket known to be OPEN.
SendOpen(q, s, f) == [q EXCEPT ![s] = Append(@, f)]

\* Fan-out of one frame to a set of sockets.
RECURSIVE SendAll(_, _, _)
SendAll(q, S, f) ==
  IF S = {} THEN q
  ELSE LET s == CHOOSE x \in S : TRUE
       IN SendAll(Send(q, s, f), S \ {s}, f)

\* The fan-out with its origin test inverted.
UpdateTargetsOrigin(st, origin) == {c \in st.clients : c = origin /\ ready[c] = "OPEN"}

\* doc.on("update"): the sockets the update frame goes to.
UpdateTargets(st, origin) == {c \in st.clients : c # origin /\ ready[c] = "OPEN"}

\* awareness.on("update"): the sockets the awareness frame goes to.
AwarenessTargets(st) == {c \in st.clients : ready[c] = "OPEN"}

\* messageFileOp: the sockets the frame is relayed to.
FileOpTargets(st, ws) == {c \in st.clients : c # ws /\ ready[c] = "OPEN"}

\* awareness.on("update") bookkeeping: remember added and updated ids
\* under the origin socket.
TrackIds(index, origin, added, updated) ==
  [x \in (DOMAIN index) \cup {origin} |->
     (IF x \in DOMAIN index THEN index[x] ELSE {})
       \cup (IF x = origin THEN added \cup updated ELSE {})]

\* Map.delete(ws) on clientAwarenessIds.
DropIds(index, ws) == [x \in (DOMAIN index) \ {ws} |-> index[x]]

\* awarenessProtocol.removeAwarenessStates(awareness, ids, null) followed
\* by the awareness "update" listener (origin null: nothing is tracked).
\* Yields the RoomState and the outbound queues.
RemoveAwareness(st, q, ids) ==
  LET removed == ids \cap st.awStates
      st2 == [st EXCEPT !.awStates = @ \ ids]
  IN IF removed # {} /\ ~st.destroyed
       THEN [st |-> st2, q |-> SendAll(q, AwarenessTargets(st2), AwFrame(removed))]
       ELSE [st |-> st2, q |-> q]

\* sendSyncStep1 and sendAwarenessState of the "connection" handler.
\* open: the socket's readyState is OPEN when the handler resumes.
RegisterSend(q, st, s, open) ==
  IF ~open THEN q
  ELSE LET q1 == SendOpen(q, s, Step1Frame(st.doc))
       IN IF st.awStates # {} THEN SendOpen(q1, s, AwFrame(st.awStates)) ELSE q1

\* The connectors waiting on one creation resume in connection order.
RECURSIVE RegisterAll(_, _, _)
RegisterAll(q, st, S) ==
  IF S = {} THEN q
  ELSE LET s == CHOOSE x \in S : \A y \in S : x <= y
       IN RegisterAll(RegisterSend(q, st, s, ready[s] = "OPEN"), st, S \ {s})

\* Sockets whose "connection" handler awaits the creation of RoomState o.
Waiting(o) == {s \in Sockets : stage[s] = "awaiting" /\ sroom[s] = o}

\* The client end of socket s can send.
Connected(s) == stage[s] \in {"awaiting", "attached"} /\ ready[s] = "OPEN"

\* Updates some client has made so far.
Used == UNION {cdoc[s] : s \in Sockets}

\* ---- gateway: the "upgrade" handler --------------------------------------
\* A room name is the sequence of its ":"-separated parts, <<>> being the
\* empty string.  The model holds the room RoomId, its control room and its
\* document DocName.
RoomId == <<"r1">>
DocName == <<"r1", "doc">>
RoomToken == "t1"

\* An upgrade request: the prefix of url.pathname, the rest of the path
\* and the query parameters token and jwt ("" = parameter absent).
Request(prefix, name, token, jwt) ==
  [prefix |-> prefix, name |-> name, token |-> token, jwt |-> jwt]

NoRequest == Request("", <<>>, "", "")

\* Requests for another document of the room are left out: they reach a
\* replica this model does not hold.
Requests ==
  {Request(p, n, t, j) : p \in {"/ws/", "/control/", "/"},
                         n \in {<<>>, RoomId, DocName, <<"r0">>},
                         t \in {"", RoomToken, "t0"},
                         j \in {"", "valid", "forged"}}
    \ {Request("/ws/", RoomId, t, j) : t \in {"", RoomToken, "t0"}, j \in {"", "valid", "forged"}}

\* fullRoomName.split(":")[0]
BaseRoomId(name) == <<name[1]>>

\* A token of as many characters as the room token whose last character is
\* outside ASCII (two bytes in UTF-8).
WideToken == "t+"

\* a.length: the number of UTF-16 code units of a token.
CharLength(t) == IF t = "" THEN 0 ELSE 2

\* Buffer.from(a).length: the number of bytes of its UTF-8 encoding.
ByteLength(t) == IF t = "" THEN 0 ELSE IF t = WideToken THEN 3 ELSE 2

\* crypto.timingSafeEqual(x, y): it throws a RangeError when the buffers
\* differ in byte length.
TimingSafeEqual(a, b) ==
  IF ByteLength(a) # ByteLength(b) THEN "RangeError"
  ELSE IF a = b THEN "true" ELSE "false"

\* safeTokenCompare(a, b): "true", "false" or the error it throws.
SafeTokenCompare(a, b) ==
  IF CharLength(a) # CharLength(b) THEN "false" ELSE TimingSafeEqual(a, b)

\* A verifier that accepts every token.
VerifyJWTAny(j) == TRUE

\* verifyJWT(token): jwt.verify accepts the token or throws.
VerifyJWT(j) == j = "valid"

\* The checks both routes make once the path has matched.
Admit(r, roomId, engine) ==
  IF roomId \notin registry THEN "destroy"
  ELSE IF r.token = "" THEN "destroy"
  ELSE IF SafeTokenCompare(r.token, RoomToken) = "RangeError" THEN "throw"
  ELSE IF SafeTokenCompare(r.token, RoomToken) = "false" THEN "destroy"
  ELSE IF requireAuth /\ (r.jwt = "" \/ ~VerifyJWT(r.jwt)) THEN "destroy"
  ELSE engine

\* server.on("upgrade"): the engine the socket is handed to, or "destroy".
Route(r) ==
  IF r.prefix = "/ws/" /\ r.name # <<>> THEN Admit(r, BaseRoomId(r.name), "yjs")
  ELSE IF r.prefix = "/control/" /\ r.name # <<>> THEN Admit(r, r.name, "control")
  ELSE "destroy"

\* ---- plugin: ConnectionStateManager --------------------------------------
Listeners == 1..MaxListeners

\* Listeners whose callback calls the unsubscribe function onChange returned
\* for them (a listener that wants one notification); the others only
\* look at their arguments.
Once == {1}

\* ConnectionEvent: its type and the message of an error or the attempt of
\* a reconnecting event ("" = the type has no further field).
Event(type, arg) == [type |-> type, arg |-> arg]
Events ==
  {Event(t, "") : t \in {"connect", "connected", "disconnect", "auth-expired"}}
    \cup {Event("error", "timeout"), Event("reconnecting", "1")}

\* The switch of transition(event).
Target(type) ==
  IF type = "connect" THEN "connecting"
  ELSE IF type = "auth-expired" THEN "auth-required"
  ELSE type

\* listeners.splice(listeners.indexOf(l), 1), nothing when l is not found.
Splice(ls, l) ==
  IF \A i \in 1..Len(ls) : ls[i] # l THEN ls
  ELSE LET idx == CHOOSE i \in 1..Len(ls) : ls[i] = l /\ \A j \in 1..(i - 1) : ls[j] # l
       IN [i \in 1..(Len(ls) - 1) |-> IF i < idx THEN ls[i] ELSE ls[i + 1]]

\* for (const l of this.listeners) l(this.state, event): the array iterator
\* reads this.listeners[i] for i = 0, 1, ... until i reaches the length the
\* array has at that moment, so a splice made by a callback moves the
\* elements under the iterator.
RECURSIVE Notify(_, _, _, _, _)
Notify(ls, i, st, e, cs) ==
  IF i > Len(ls) THEN [listeners |-> ls, calls |-> cs]
  ELSE Notify(IF ls[i] \in Once THEN Splice(ls, ls[i]) ELSE ls,
              i + 1, st, e, Append(cs, <<ls[i], st, e>>))

\* transition(event)
Transition(e) ==
  /\ state' = Target(e.type)
  /\ IF Target(e.type) # state
       THEN \E r \in {Notify(listeners, 1, Target(e.type), e, <<>>)} :
               /\ listeners' = r.listeners
               /\ calls' = r.calls
               /\ subscription' =
                    [l \in Listeners |->
                       IF l \in Once /\ (\E i \in 1..Len(r.calls) : r.calls[i][1] = l)
                         THEN "unsubscribed" ELSE subscription[l]]
       ELSE /\ calls' = <<>>
            /\ UNCHANGED <<listeners, subscription>>
  /\ UNCHANGED <<yvars, cvars, gvars, pvars>>

\* onChange(listener) with a function that is not subscribed.
OnChange(l) ==
  /\ subscription[l] # "subscribed"
  /\ listeners' = Append(listeners, l)
  /\ subscription' = [subscription EXCEPT ![l] = "subscribed"]
  /\ UNCHANGED <<state, calls, yvars, cvars, gvars, pvars>>

\* The function onChange returned for l is called from outside a callback.
Unsubscribe(l) ==
  /\ subscription[l] # "none"
  /\ listeners' = Splice(listeners, l)
  /\ subscription' = [subscription EXCEPT ![l] = "unsubscribed"]
  /\ UNCHANGED <<state, calls, yvars, cvars, gvars, pvars>>

\* ---- the /rooms router --------------------------------------------------
\* A request to /rooms/:id and the status it was answered with (0 = none).
Exchange(method, id, status) == [method |-> method, id |-> id, status |-> status]
NoExchange == Exchange("", <<>>, 0)

\* Room ids a /rooms request names: the room of the model and an unknown one.
HttpIds == {RoomId, <<"r0">>}

\* Tokens a request carries ("" = none).
Tokens == {"", RoomToken, "t0"}

\* An Authorization header: its first seven characters and the rest
\* (NoHeader = the header is absent).
Header(scheme, cred) == [scheme |-> scheme, cred |-> cred]
NoHeader == Header("", "")
AuthHeaders == {NoHeader} \cup {Header(sc, c) : sc \in {"Bearer ", "Basic  "}, c \in Tokens}

\* roomRouter.delete("/:id") with the rooms map holding the ids reg.
RoomDeleteAnyToken(reg, auth, id) ==
  IF auth.scheme # "Bearer " THEN [status |-> 401, rooms |-> reg]
  ELSE IF id \notin reg THEN [status |-> 404, rooms |-> reg]
  ELSE [status |-> 200, rooms |-> reg \ {id}]

RoomDelete(reg, auth, id) ==
  IF auth.scheme # "Bearer " THEN [status |-> 401, rooms |-> reg]
  ELSE IF id \notin reg THEN [status |-> 404, rooms |-> reg]
  ELSE IF SafeTokenCompare(auth.cred, RoomToken) = "RangeError"
    THEN [status |-> 500, rooms |-> reg]
  ELSE IF SafeTokenCompare(auth.cred, RoomToken) = "false"
    THEN [status |-> 403, rooms |-> reg]
  ELSE [status |-> 200, rooms |-> reg \ {id}]

\* roomRouter.post("/:id/join"): the status of the answer.
RoomJoin(reg, id, token) ==
  IF id \notin reg THEN 404
  ELSE IF token = "" THEN 403
  ELSE IF SafeTokenCompare(token, RoomToken) = "RangeError" THEN 500
  ELSE IF SafeTokenCompare(token, RoomToken) = "false" THEN 403
  ELSE 200

\* roomRouter.get("/:id"): the status of the answer.
RoomGet(reg, id) == IF id \in reg THEN 200 ELSE 404

\* DELETE /rooms/:id; the room is deleted from the persistence as well.
HttpDelete(auth, id) ==
  /\ \E r \in {RoomDelete(registry, auth, id)} :
        /\ registry' = r.rooms
        /\ roomStore' = IF r.status = 200 THEN roomStore \ {id} ELSE roomStore
        /\ http' = Exchange("DELETE", id, r.status)
  /\ UNCHANGED <<requireAuth, req, raw, yvars, cvars, pvars, mvars>>

\* POST /rooms/:id/join
HttpJoin(id, token) ==
  /\ http' = Exchange("POST", id, RoomJoin(registry, id, token))
  /\ UNCHANGED <<requireAuth, registry, req, raw, roomStore, yvars, cvars, pvars, mvars>>

\* GET /rooms/:id
HttpGet(id) ==
  /\ http' = Exchange("GET", id, RoomGet(registry, id))
  /\ UNCHANGED <<requireAuth, registry, req, raw, roomStore, yvars, cvars, pvars, mvars>>

\* handleUpgrade for a request the gateway admits to the engine.
Handoff(engine) ==
  /\ \E r \in Requests : Route(r) = engine /\ req' = r
  /\ raw' = "upgraded"
  /\ UNCHANGED <<requireAuth, registry, roomStore, http>>

Init ==
  /\ store \in {{}, {0}}
  /\ rooms = <<>>
  /\ roomStates = 0
  /\ pendingRooms = 0
  /\ stage = [s \in Sockets |-> "idle"]
  /\ ready = [s \in Sockets |-> "CONNECTING"]
  /\ sroom = [s \in Sockets |-> 0]
  /\ toClient = [s \in Sockets |-> <<>>]
  /\ toServer = [s \in Sockets |-> <<>>]
  /\ cdoc = [s \in Sockets |-> {}]
  /\ cstep1 = [s \in Sockets |-> FALSE]
  /\ csynced = [s \in Sockets |-> FALSE]
  /\ delivery \in {"queued", "eager"}
  /\ announced = [s \in Sockets |-> {}]
  /\ shutdown = "running"
  /\ closing = 0
  /\ serverRoom \in [hostUserId : {"", "a"}, requireApproval : BOOLEAN,
                      defaultPermission : {"", "read-only"}]
  /\ cclients = <<>>
  /\ corder = <<>>
  /\ pendingApprovals = <<>>
  /\ controlRooms = {}
  /\ shutdownCalls = [i \in 1..MaxSignals |-> [pc |-> "idle", room |-> 0]]
  /\ closeCount = 0
  /\ dbStatus = "open"
  /\ cready = [s \in CtlSockets |-> "CLOSED"]
  /\ cout = [s \in CtlSockets |-> <<>>]
  /\ identified = [s \in CtlSockets |-> FALSE]
  /\ recording \in BOOLEAN
  /\ requireAuth \in BOOLEAN
  /\ registry \in {{}, {RoomId}}
  /\ req = NoRequest
  /\ raw = "none"
  /\ roomStore = registry
  /\ http = NoExchange
  /\ state = "disconnected"
  /\ listeners = <<>>
  /\ subscription = [l \in Listeners |-> "none"]
  /\ calls = <<>>

\* ---- gateway: a socket passes the upgrade ------------------------------
\* The server still holds a reference to socket s.
Referenced(s) ==
  \E o \in 1..Len(rooms) : s \in rooms[o].clients \/ s \in DOMAIN rooms[o].clientAwarenessIds

\* Sockets are interchangeable: unused ones connect in index order, and the
\* index of a closed socket the server has forgotten names the next
\* connection of that client.
CanUpgrade(s) ==
  \/ stage[s] = "idle" /\ \A t \in Sockets : t < s => stage[t] # "idle"
  \/ stage[s] = "closed" /\ ~Referenced(s)

\* server.on("upgrade") for a request that fails a check: socket.destroy().
Reject(r) ==
  /\ Route(r) = "destroy"
  /\ req' = r
  /\ raw' = "destroyed"
  /\ UNCHANGED <<requireAuth, registry, roomStore, http, yvars, cvars, pvars, mvars>>

\* server.on("upgrade") for a request whose token check throws: no
\* try/catch surrounds the listener and no handler for uncaughtException is
\* installed, so the process ends with every room and socket it held.  The
\* step is taken where the CRDT engine holds no document.
UpgradeThrows(r) ==
  /\ Route(r) = "throw"
  /\ req' = r
  /\ raw' = "open"
  /\ shutdown' = "crashed"
  /\ cclients' = <<>>
  /\ corder' = <<>>
  /\ pendingApprovals' = <<>>
  /\ controlRooms' = {}
  /\ cready' = [t \in CtlSockets |-> "CLOSED"]
  /\ cout' = [t \in CtlSockets |-> <<>>]
  /\ identified' = [t \in CtlSockets |-> FALSE]
  /\ UNCHANGED <<store, rooms, roomStates, pendingRooms, stage, ready, sroom,
                 toClient, toServer, cdoc, cstep1, csynced, delivery, announced,
                 closing, serverRoom, recording, requireAuth, registry, roomStore,
                 http, pvars, mvars>>

\* The outbound queues a server step appends to.
Out == IF delivery = "queued" THEN toClient ELSE [s \in Sockets |-> <<>>]

\* The client end of a new connection: nothing sent, nothing received.
NewConnection(s) ==
  /\ ready' = [ready EXCEPT ![s] = "OPEN"]
  /\ cstep1' = [cstep1 EXCEPT ![s] = FALSE]
  /\ csynced' = [csynced EXCEPT ![s] = FALSE]
  /\ announced' = [announced EXCEPT ![s] = {}]
  /\ Handoff("yjs")
  /\ UNCHANGED <<store, toServer, cdoc, delivery, shutdown, closing, cvars, pvars, mvars>>

\* getOrCreateRoom looking the pending creation up in roomStates.
PendingCreationUnseen == roomStates

\* pendingRooms.get(roomId) in getOrCreateRoom.
PendingCreation == pendingRooms

\* "connection" with roomStates.get(roomId) defined: getOrCreateRoom clears
\* the idle timer and returns the existing RoomState; the handler registers
\* the socket in the same tick.
ConnectExisting(s) ==
  /\ CanUpgrade(s)
  /\ roomStates # 0
  /\ LET o == roomStates
         st == [rooms[o] EXCEPT !.cleanupTimer = "none", !.clients = @ \cup {s}]
     IN /\ rooms' = [rooms EXCEPT ![o] = st]
        /\ toClient' = RegisterSend(Out, st, s, TRUE)
        /\ sroom' = [sroom EXCEPT ![s] = o]
  /\ stage' = [stage EXCEPT ![s] = "attached"]
  /\ NewConnection(s)
  /\ UNCHANGED <<roomStates, pendingRooms>>

\* "connection" while another connector is creating the RoomState: the
\* handler awaits the pending promise.
ConnectPending(s) ==
  /\ CanUpgrade(s)
  /\ roomStates = 0
  /\ PendingCreation # 0
  /\ sroom' = [sroom EXCEPT ![s] = PendingCreation]
  /\ stage' = [stage EXCEPT ![s] = "awaiting"]
  /\ toClient' = Out
  /\ NewConnection(s)
  /\ UNCHANGED <<rooms, roomStates, pendingRooms>>

\* "connection" with neither entry: createRoom constructs doc and awareness,
\* starts the load and the promise is put in pendingRooms.
ConnectCreate(s) ==
  /\ CanUpgrade(s)
  /\ roomStates = 0
  /\ PendingCreation = 0
  /\ Len(rooms) < MaxObjs
  /\ rooms' = Append(rooms, NewRoomState)
  /\ pendingRooms' = Len(rooms) + 1
  /\ sroom' = [sroom EXCEPT ![s] = Len(rooms) + 1]
  /\ stage' = [stage EXCEPT ![s] = "awaiting"]
  /\ toClient' = Out
  /\ NewConnection(s)
  /\ UNCHANGED roomStates

\* p.loadDoc resolves: createRoom publishes the RoomState, drops the pending
\* entry and attaches the listeners; every waiting "connection" handler then
\* resumes in the same tick.
LoadDone(o) ==
  /\ o \in 1..Len(rooms)
  /\ ~rooms[o].loaded
  /\ LET W == Waiting(o)
         st == [rooms[o] EXCEPT !.doc = store, !.loaded = TRUE, !.clients = W]
     IN /\ rooms' = [rooms EXCEPT ![o] = st]
        /\ toClient' = RegisterAll(Out, st, W)
        /\ stage' = [s \in Sockets |-> IF s \in W THEN "attached" ELSE stage[s]]
  /\ roomStates' = o
  /\ pendingRooms' = 0
  /\ UNCHANGED <<store, ready, sroom, toServer, cdoc, cstep1, csynced, delivery, announced, shutdown, closing, cvars, gvars, pvars, mvars>>

\* p.loadDoc rejects: createRoom rejects before it has written roomStates,
\* the .catch of getOrCreateRoom deletes the pendingRooms entry and throws
\* again, and the await of every waiting "connection" handler throws.  The
\* handlers are async listeners without try/catch and no handler for
\* unhandledRejection is installed, so once the microtasks have run the
\* process ends with every socket it held.
LoadFail(o) ==
  /\ o \in 1..Len(rooms)
  /\ ~rooms[o].loaded
  /\ pendingRooms = o
  /\ pendingRooms' = 0
  /\ stage' = [s \in Sockets |-> IF s \in Waiting(o) THEN "failed" ELSE stage[s]]
  /\ shutdown' = "crashed"
  /\ ready' = [s \in Sockets |-> IF ready[s] = "OPEN" THEN "CLOSED" ELSE ready[s]]
  /\ toClient' = [s \in Sockets |-> <<>>]
  /\ toServer' = [s \in Sockets |-> <<>>]
  /\ UNCHANGED <<store, rooms, roomStates, sroom, cdoc, cstep1, csynced, delivery,
                 announced, closing, cvars, gvars, pvars, mvars>>

\* ---- handleMessage ---------------------------------------------------
\* doc.on("update") listener: fan the update out and (re)arm the debounced
\* persist.  Y.Doc.destroy() drops every listener, so a destroyed replica
\* emits nothing.
DocUpdate(st, q, new, origin) ==
  IF st.destroyed THEN [st |-> st, q |-> q]
  ELSE [st |-> [st EXCEPT !.persistTimer = TRUE, !.persistAge = 0],
        q |-> SendAll(q, UpdateTargets(st, origin), UpdateFrame(new))]

\* case messageSync: readSyncMessage answers a step-1 with a step-2 on the
\* same socket and applies a step-2 / update to the replica with the socket
\* as transaction origin.
HandleSync(ws, st, q, f) ==
  IF f.k = 1
    THEN [st |-> st, q |-> Send(q, ws, Step2Frame(st.doc \ f.u))]
    ELSE LET new == f.u \ st.doc
         IN IF new = {} THEN [st |-> st, q |-> q]
            ELSE DocUpdate([st EXCEPT !.doc = @ \cup new,
                                      !.age = [u \in Updates |-> IF u \in new THEN 0 ELSE @[u]],
                                      !.log = IF recording THEN Append(@, new) ELSE @],
                           q, new, ws)

\* awareness.on("update") listener: track the ids under a socket origin and
\* send the changed ids to every OPEN client.
AwarenessUpdate(st, q, added, updated, removed, origin) ==
  IF st.destroyed THEN [st |-> st, q |-> q]
  ELSE LET st2 == IF origin \in Sockets
                    THEN [st EXCEPT !.clientAwarenessIds =
                                       TrackIds(@, origin, added, updated)]
                    ELSE st
       IN [st |-> st2,
           q |-> SendAll(q, AwarenessTargets(st2), AwFrame(added \cup updated \cup removed))]

\* applyAwarenessUpdate for one entry (id, clock, state or null): the entry
\* is taken when its clock is newer, or equal with a null state for an id
\* that still has a state.
AwAccept(st, f) ==
  LET currClock == IF st.awMeta[f.id] # -1 THEN st.awMeta[f.id] ELSE 0
  IN \/ currClock < f.clock
     \/ (currClock = f.clock /\ ~f.live /\ f.id \in st.awStates)

\* The added, updated and removed lists applyAwarenessUpdate emits.
AwAdded(st, f) == IF AwAccept(st, f) /\ st.awMeta[f.id] = -1 /\ f.live THEN {f.id} ELSE {}
AwUpdated(st, f) == IF AwAccept(st, f) /\ st.awMeta[f.id] # -1 /\ f.live THEN {f.id} ELSE {}
AwRemoved(st, f) == IF AwAccept(st, f) /\ st.awMeta[f.id] # -1 /\ ~f.live THEN {f.id} ELSE {}

\* case messageAwareness: applyAwarenessUpdate with the socket as origin.
HandleAwareness(ws, st, q, f) ==
  LET st2 == [st EXCEPT !.awStates = IF f.live THEN @ \cup {f.id} ELSE @ \ {f.id},
                        !.awMeta[f.id] = f.clock]
  IN IF ~AwAccept(st, f) THEN [st |-> st, q |-> q]
     ELSE IF AwAdded(st, f) \cup AwUpdated(st, f) \cup AwRemoved(st, f) = {}
       THEN [st |-> st2, q |-> q]
     ELSE AwarenessUpdate(st2, q, AwAdded(st, f), AwUpdated(st, f), AwRemoved(st, f), ws)

\* case messageFileOp: relay the raw frame.
HandleFileOp(ws, st, q, f) ==
  [st |-> st, q |-> SendAll(q, FileOpTargets(st, ws), f)]

\* handleMessage: frames of any other type fall through the switch.
HandleMessage(ws, st, q, f) ==
  IF f.t = messageSync THEN HandleSync(ws, st, q, f)
  ELSE IF f.t = messageAwareness THEN HandleAwareness(ws, st, q, f)
  ELSE IF f.t = messageFileOp THEN HandleFileOp(ws, st, q, f)
  ELSE [st |-> st, q |-> q]

\* ws.on("message") of a registered socket receiving frame f.
Recv(s, f) ==
  /\ stage[s] = "attached"
  /\ ready[s] = "OPEN"
  /\ \E r \in {HandleMessage(s, rooms[sroom[s]], Out, f)} :
        /\ rooms' = [rooms EXCEPT ![sroom[s]] = r.st]
        /\ toClient' = r.q
  /\ announced' = IF f.t = messageAwareness
                     THEN [announced EXCEPT ![s] = @ \cup AwAdded(rooms[sroom[s]], f)
                                                     \cup AwUpdated(rooms[sroom[s]], f)]
                     ELSE announced
  /\ UNCHANGED <<store, roomStates, pendingRooms, stage, ready, sroom, cdoc, cstep1,
                 csynced, delivery, shutdown, closing, cvars, gvars, pvars, mvars>>

\* ---- disconnect --------------------------------------------------------
\* ws.on("close") listener body.
OnClose(ws, st, q) ==
  LET st1 == [st EXCEPT !.clients = @ \ {ws}]
      ids == IF ws \in DOMAIN st.clientAwarenessIds THEN st.clientAwarenessIds[ws] ELSE {}
      r == IF ids # {} THEN RemoveAwareness(st1, q, ids) ELSE [st |-> st1, q |-> q]
      st2 == [r.st EXCEPT !.clientAwarenessIds = DropIds(@, ws)]
  IN [st |-> IF st2.clients = {} THEN [st2 EXCEPT !.cleanupTimer = "pending"] ELSE st2,
      q |-> r.q]

\* The socket closes.  The "close" listener exists only once the
\* "connection" handler has resumed.
Close(s) ==
  /\ stage[s] \in {"awaiting", "attached"}
  /\ ready[s] = "OPEN"
  /\ ready' = [ready EXCEPT ![s] = "CLOSED"]
  /\ toServer' = [toServer EXCEPT ![s] = <<>>]
  /\ IF stage[s] = "attached"
       THEN \E r \in {OnClose(s, rooms[sroom[s]], Out)} :
               /\ rooms' = [rooms EXCEPT ![sroom[s]] = r.st]
               /\ toClient' = [r.q EXCEPT ![s] = <<>>]
               /\ stage' = [stage EXCEPT ![s] = "closed"]
       ELSE /\ rooms' = rooms
            /\ toClient' = [Out EXCEPT ![s] = <<>>]
            /\ stage' = stage
  /\ UNCHANGED <<store, roomStates, pendingRooms, sroom, cdoc, cstep1, csynced, delivery, announced, shutdown, closing, cvars, gvars, pvars, mvars>>

\* ---- timers -------------------------------------------------------------
\* The 30 s idle timer fires; with no client left cleanupRoom starts: it
\* clears the persist timer and calls p.persistDoc (the snapshot is encoded
\* at the call).
IdleTimerFire(o) ==
  /\ o \in 1..Len(rooms)
  /\ rooms[o].cleanupTimer = "pending"
  /\ IF rooms[o].clients = {}
       THEN /\ rooms[o].cleaning < MaxCleaning
            /\ rooms' = [rooms EXCEPT ![o].cleanupTimer = "fired",
                                      ![o].persistTimer = FALSE,
                                      ![o].cleaning = @ + 1]
            /\ store' = rooms[o].doc
       ELSE /\ rooms' = [rooms EXCEPT ![o].cleanupTimer = "fired"]
            /\ store' = store
  /\ toClient' = Out
  /\ UNCHANGED <<roomStates, pendingRooms, stage, ready, sroom, toServer,
                 cdoc, cstep1, csynced, delivery, announced, shutdown, closing, cvars, gvars, pvars, mvars>>

\* doc.destroy(): the awareness instance is destroyed with the replica
\* (its setLocalState(null) emits one last, empty update) and every
\* listener is dropped.
Destroy(st, q) ==
  IF st.destroyed THEN [st |-> st, q |-> q]
  ELSE [st |-> [st EXCEPT !.destroyed = TRUE],
        q |-> SendAll(q, AwarenessTargets(st), AwFrame({}))]

\* cleanupRoom after its await: remove every awareness state, destroy the
\* replica, delete the roomStates entry of the name.
CleanupDone(o) ==
  /\ o \in 1..Len(rooms)
  /\ rooms[o].cleaning > 0
  /\ \E r \in {RemoveAwareness(rooms[o], Out, rooms[o].awStates)} :
     \E d \in {Destroy(r.st, r.q)} :
        /\ rooms' = [rooms EXCEPT ![o] = [d.st EXCEPT !.cleaning = @ - 1]]
        /\ toClient' = d.q
  /\ roomStates' = 0
  /\ UNCHANGED <<store, pendingRooms, stage, ready, sroom, toServer, cdoc, cstep1,
                 csynced, delivery, announced, shutdown, closing, cvars, gvars, pvars, mvars>>

\* The 5 s debounce timer fires: p.persistDoc(roomId, doc).
PersistTimerFire(o) ==
  /\ o \in 1..Len(rooms)
  /\ rooms[o].persistTimer
  /\ rooms' = [rooms EXCEPT ![o].persistTimer = FALSE]
  /\ store' = rooms[o].doc
  /\ toClient' = Out
  /\ UNCHANGED <<roomStates, pendingRooms, stage, ready, sroom, toServer,
                 cdoc, cstep1, csynced, delivery, announced, shutdown, closing, cvars, gvars, pvars, mvars>>

\* ---- store writes that fail ----------------------------------------------
\* The debounce timer fires and p.persistDoc rejects: the .catch logs the
\* error.
PersistTimerReject(o) ==
  /\ o \in 1..Len(rooms)
  /\ rooms[o].persistTimer
  /\ rooms' = [rooms EXCEPT ![o].persistTimer = FALSE]
  /\ toClient' = Out
  /\ UNCHANGED <<store, roomStates, pendingRooms, stage, ready, sroom, toServer,
                 cdoc, cstep1, csynced, delivery, announced, shutdown, closing, cvars, gvars, pvars, mvars>>

\* The idle timer fires with no client left and the p.persistDoc cleanupRoom
\* awaits will reject: the catch logs the error and cleanupRoom goes on.
IdleTimerReject(o) ==
  /\ o \in 1..Len(rooms)
  /\ rooms[o].cleanupTimer = "pending"
  /\ rooms[o].clients = {}
  /\ rooms[o].cleaning < MaxCleaning
  /\ rooms' = [rooms EXCEPT ![o].cleanupTimer = "fired",
                            ![o].persistTimer = FALSE,
                            ![o].cleaning = @ + 1]
  /\ toClient' = Out
  /\ UNCHANGED <<store, roomStates, pendingRooms, stage, ready, sroom, toServer,
                 cdoc, cstep1, csynced, delivery, announced, shutdown, closing, cvars, gvars, pvars, mvars>>

\* ---- the clock -----------------------------------------------------------
\* The persist timer of RoomState o is due.
PersistDue(o) ==
  o \in 1..Len(rooms) /\ rooms[o].persistTimer /\ rooms[o].persistAge = PersistDebounce

\* One tick of the clock passes; a timer that is due fires before the next
\* tick.  Ages stop counting one tick past the debounce.
Tick ==
  /\ \A o \in 1..Len(rooms) : ~PersistDue(o)
  /\ rooms' = [o \in 1..Len(rooms) |->
                 [rooms[o] EXCEPT
                    !.persistAge = IF rooms[o].persistTimer THEN @ + 1 ELSE @,
                    !.age = [u \in Updates |->
                               IF @[u] >= 0 /\ @[u] <= PersistDebounce THEN @[u] + 1 ELSE @[u]]]]
  /\ toClient' = Out
  /\ UNCHANGED <<store, roomStates, pendingRooms, stage, ready, sroom, toServer, cdoc,
                 cstep1, csynced, delivery, announced, shutdown, closing, cvars, gvars, pvars, mvars>>

\* ---- graceful shutdown ---------------------------------------------------
\* closeAllRooms up to its await: for the RoomState in roomStates both
\* timers are cleared and p.persistDoc is called (the snapshot is encoded at
\* the call).  With no entry in roomStates the loop body does not run.
CloseAllRoomsStart ==
  /\ shutdown = "running"
  /\ IF roomStates = 0
       THEN /\ shutdown' = "done"
            /\ UNCHANGED <<rooms, store, closing>>
       ELSE /\ shutdown' = "persisting"
            /\ closing' = roomStates
            /\ rooms' = [rooms EXCEPT ![roomStates].persistTimer = FALSE,
                                      ![roomStates].cleanupTimer = "none"]
            /\ store' = rooms[roomStates].doc
  /\ toClient' = Out
  /\ UNCHANGED <<roomStates, pendingRooms, stage, ready, sroom, toServer, cdoc, cstep1,
                 csynced, delivery, announced, cvars, gvars, pvars, mvars>>

\* closeAllRooms after its await: every client of the RoomState is closed
\* by the server, the replica is destroyed and roomStates is cleared.
CloseAllRoomsDone ==
  /\ shutdown = "persisting"
  /\ shutdown' = "done"
  /\ closing' = 0
  /\ ready' = [s \in Sockets |->
                 IF s \in rooms[closing].clients /\ ready[s] = "OPEN" THEN "CLOSING" ELSE ready[s]]
  /\ \E d \in {Destroy(rooms[closing], [s \in Sockets |-> <<>>])} :
        rooms' = [rooms EXCEPT ![closing] = d.st]
  /\ toClient' = Out
  /\ roomStates' = 0
  /\ UNCHANGED <<store, pendingRooms, stage, sroom, toServer, cdoc, cstep1, csynced,
                 delivery, announced, cvars, gvars, pvars, mvars>>

\* ---- shutdown() of the process ------------------------------------------
\* closeAllRooms has returned to shutdown(), which calls persistence.close()
\* and awaits it.
CallClose(i) ==
  /\ shutdownCalls' = [shutdownCalls EXCEPT ![i] = [pc |-> "closing", room |-> 0]]
  /\ closeCount' = closeCount + 1
  /\ dbStatus' = IF dbStatus = "open" THEN "closing" ELSE dbStatus

\* closeAllRooms reaching a RoomState in its loop over roomStates: both
\* timers are cleared and p.persistDoc is called and awaited; the promise
\* will resolve (ok) or reject.
PersistRoom(i, o, ok) ==
  /\ shutdownCalls' = [shutdownCalls EXCEPT
                         ![i] = [pc |-> IF ok THEN "persisting" ELSE "rejecting",
                                 room |-> o]]
  /\ store' = IF ok THEN rooms[o].doc ELSE store
  /\ UNCHANGED <<closeCount, dbStatus>>

\* A signal arrives: onSignal calls shutdown(), which runs closeAllRooms up
\* to its first await; with no entry in roomStates it returns and
\* persistence.close() is called.  ok: the persist will resolve (it rejects
\* otherwise, and the catch logs the error).
ShutdownCallWith(i, ok) ==
  /\ shutdown = "running"
  /\ shutdownCalls[i].pc = "idle"
  /\ \A j \in 1..(i - 1) : shutdownCalls[j].pc # "idle"
  /\ IF roomStates = 0
       THEN CallClose(i) /\ UNCHANGED <<rooms, store>>
       ELSE /\ PersistRoom(i, roomStates, ok)
            /\ rooms' = [rooms EXCEPT ![roomStates].persistTimer = FALSE,
                                      ![roomStates].cleanupTimer = "none"]
  /\ toClient' = Out
  /\ UNCHANGED <<roomStates, pendingRooms, stage, ready, sroom, toServer, cdoc, cstep1,
                 csynced, delivery, announced, shutdown, closing, cvars, gvars, mvars>>

ShutdownCall(i) == ShutdownCallWith(i, TRUE)

\* The signal arrives and the persist closeAllRooms awaits will reject.
ShutdownCallReject(i) == roomStates # 0 /\ ShutdownCallWith(i, FALSE)

\* p.persistDoc of call i settles (a rejection is caught and logged): every client of the RoomState is closed
\* by the server and the replica is destroyed.  The loop goes on with an
\* entry that was put into roomStates during the await; without one
\* roomStates is cleared and persistence.close() is called.
PersistResolved(i) ==
  /\ shutdown = "running"
  /\ shutdownCalls[i].pc \in {"persisting", "rejecting"}
  /\ \E o \in {shutdownCalls[i].room} :
     \E d \in {Destroy(rooms[o], [s \in Sockets |-> <<>>])} :
        /\ ready' = [s \in Sockets |->
                       IF s \in rooms[o].clients /\ ready[s] = "OPEN"
                         THEN "CLOSING" ELSE ready[s]]
        /\ IF roomStates \notin {0, o}
             THEN /\ PersistRoom(i, roomStates, TRUE)
                  /\ rooms' = [rooms EXCEPT ![o] = d.st,
                                            ![roomStates].persistTimer = FALSE,
                                            ![roomStates].cleanupTimer = "none"]
                  /\ UNCHANGED roomStates
             ELSE /\ CallClose(i)
                  /\ rooms' = [rooms EXCEPT ![o] = d.st]
                  /\ roomStates' = 0
                  /\ UNCHANGED store
  /\ toClient' = Out
  /\ UNCHANGED <<pendingRooms, stage, sroom, toServer, cdoc, cstep1, csynced,
                 delivery, announced, shutdown, closing, cvars, gvars, mvars>>

\* persistence.close() resolves: shutdown() closes the HTTP server and
\* onSignal calls process.exit(0).
StoreClosed ==
  /\ shutdown = "running"
  /\ \E i \in 1..MaxSignals : shutdownCalls[i].pc = "closing"
  /\ dbStatus' = "closed"
  /\ shutdown' = "done"
  /\ toClient' = Out
  /\ UNCHANGED <<store, rooms, roomStates, pendingRooms, stage, ready, sroom, toServer,
                 cdoc, cstep1, csynced, delivery, announced, closing, shutdownCalls,
                 closeCount, cvars, gvars, mvars>>

\* ---- frames arriving from eager clients --------------------------------
SyncInputs ==
  {Step1Frame(u) : u \in SUBSET Updates} \cup {Step2Frame(u) : u \in SUBSET Updates}
    \cup {UpdateFrame(u) : u \in SUBSET Updates}

AwInputs == {AwEntryFrame(id, clock, live) : id \in AwIds, clock \in 0..MaxClock, live \in BOOLEAN}

\* A file-op frame with body b; the server never looks into the body.
FileOpBody(b) == Frame(messageFileOp, 0, b)
FileOpFrames == {FileOpBody(b) : b \in SUBSET Updates}

\* Frames whose first varint is none of the three message types.
OtherTypeFrames == {Frame(3, 0, b) : b \in {{}, {1}}}

FileOpInputs == FileOpFrames \cup OtherTypeFrames

\* ---- clients that queue (y-websocket provider / test client) -----------
\* ws.on("message") for the oldest frame the client has in flight.
ServerRecv(s) ==
  /\ toServer[s] # <<>>
  /\ Recv(s, Head(toServer[s]))
  /\ toServer' = [toServer EXCEPT ![s] = Tail(@)]

\* A frame that arrives while the "connection" handler still awaits
\* getOrCreateRoom: no "message" listener is attached yet.
ServerDrop(s) ==
  /\ stage[s] = "awaiting"
  /\ ready[s] = "OPEN"
  /\ toServer[s] # <<>>
  /\ toServer' = [toServer EXCEPT ![s] = Tail(@)]
  /\ UNCHANGED <<store, rooms, roomStates, pendingRooms, stage, ready, sroom, toClient,
                 cdoc, cstep1, csynced, delivery, announced, shutdown, closing, cvars, gvars, pvars, mvars>>

\* The client sends its step-1 once the socket is open.
ClientStep1(s) ==
  /\ Connected(s)
  /\ ~cstep1[s]
  /\ cstep1' = [cstep1 EXCEPT ![s] = TRUE]
  /\ toServer' = [toServer EXCEPT ![s] = Append(@, Step1Frame(cdoc[s]))]
  /\ UNCHANGED <<store, rooms, roomStates, pendingRooms, stage, ready, sroom, toClient,
                 cdoc, csynced, delivery, announced, shutdown, closing, cvars, gvars, pvars, mvars>>

\* A local edit; it is sent as an update frame when the socket is open.
ClientEdit(s) ==
  /\ stage[s] = "idle" \/ Connected(s)
  /\ \E u \in Updates :
       /\ u \notin Used
       /\ \A v \in Updates : v < u => v \in Used
       /\ cdoc' = [cdoc EXCEPT ![s] = @ \cup {u}]
       /\ toServer' = IF Connected(s)
                        THEN [toServer EXCEPT ![s] = Append(@, UpdateFrame({u}))]
                        ELSE toServer
  /\ UNCHANGED <<store, rooms, roomStates, pendingRooms, stage, ready, sroom, toClient,
                 cstep1, csynced, delivery, announced, shutdown, closing, cvars, gvars, pvars, mvars>>

\* The client reads the next frame: a step-1 is answered with a step-2, a
\* step-2 or update is applied to the replica.
ClientRecv(s) ==
  /\ toClient[s] # <<>>
  /\ LET f == Head(toClient[s])
     IN /\ toServer' = IF f.t = messageSync /\ f.k = 1
                         THEN [toServer EXCEPT ![s] = Append(@, Step2Frame(cdoc[s] \ f.u))]
                         ELSE toServer
        /\ cdoc' = IF f.t = messageSync /\ f.k \in {2, 3}
                     THEN [cdoc EXCEPT ![s] = @ \cup f.u]
                     ELSE cdoc
        /\ csynced' = IF f.t = messageSync /\ f.k = 2
                        THEN [csynced EXCEPT ![s] = TRUE]
                        ELSE csynced
  /\ toClient' = [toClient EXCEPT ![s] = Tail(@)]
  /\ UNCHANGED <<store, rooms, roomStates, pendingRooms, stage, ready, sroom, cstep1,
                 delivery, announced, shutdown, closing, cvars, gvars, pvars, mvars>>

\* ---- control engine -----------------------------------------------------
UserIds == {"a", "b"}
ALLOWED_TYPES ==
  {"file-op", "presence-update", "follow-update", "session-end", "join-request",
   "join-response", "focus-request", "summon", "kick"}

\* A control message; a field the message does not carry is "" (FALSE for
\* approved).
Msg(type, userId, targetUserId, approved, permission, displayName) ==
  [type |-> type, userId |-> userId, targetUserId |-> targetUserId,
   approved |-> approved, permission |-> permission, displayName |-> displayName]

\* The ControlClient entry made by the "connection" handler.
NewControlClient ==
  [userId |-> "", displayName |-> "", isHost |-> FALSE, approved |-> TRUE,
   permission |-> IF serverRoom.defaultPermission # ""
                    THEN serverRoom.defaultPermission ELSE "read-write"]

\* sendTo(ws, msg)
SendTo(rdy, out, t, m) ==
  IF rdy[t] = "OPEN" THEN [out EXCEPT ![t] = Append(@, m)] ELSE out

\* A broadcast that does not leave the sender out.
BroadcastAll(cl, rdy, out, m, exclude) ==
  [t \in CtlSockets |->
     IF t \in DOMAIN cl /\ cl[t].approved /\ rdy[t] = "OPEN"
       THEN Append(out[t], m) ELSE out[t]]

\* broadcast(room, data, exclude)
Broadcast(cl, rdy, out, m, exclude) ==
  [t \in CtlSockets |->
     IF t \in DOMAIN cl /\ t # exclude /\ cl[t].approved /\ rdy[t] = "OPEN"
       THEN Append(out[t], m) ELSE out[t]]

\* findHost(room): the first host in insertion order, 0 when there is none.
FindHost(cl, ord) ==
  IF \E i \in 1..Len(ord) : cl[ord[i]].isHost
    THEN ord[CHOOSE i \in 1..Len(ord) :
               cl[ord[i]].isHost /\ \A j \in 1..(i - 1) : ~cl[ord[j]].isHost]
    ELSE 0

\* Map.delete(key) on pendingApprovals.
DeletePending(pa, key) == [k \in (DOMAIN pa) \ {key} |-> pa[k]]

\* Map.set(key, ws) on pendingApprovals.
SetPending(pa, key, ws) == [k \in (DOMAIN pa) \cup {key} |-> IF k = key THEN ws ELSE pa[k]]

\* The state a handler works on and the messages it has written.
CtlState == [cl |-> cclients, pa |-> pendingApprovals, rdy |-> cready,
             out |-> [t \in CtlSockets |-> <<>>]]

\* A join-request that is dropped.
HandleJoinRequestDropped(ws, c, m) == c

\* msg.type === "join-request"
HandleJoinRequest(ws, c, m) ==
  LET cl1 == [c.cl EXCEPT ![ws].userId = m.userId, ![ws].displayName = m.displayName]
  IN IF serverRoom.requireApproval
       THEN LET cl2 == [cl1 EXCEPT ![ws].approved = FALSE]
                host == FindHost(cl2, corder)
                fwd == Msg("join-request", m.userId, "", FALSE, "", m.displayName)
            IN [c EXCEPT !.cl = cl2,
                         !.pa = SetPending(@, m.userId, ws),
                         !.out = IF host # 0 THEN SendTo(c.rdy, @, host, fwd) ELSE @]
       ELSE LET cl2 == [cl1 EXCEPT ![ws].approved = TRUE]
                rsp == Msg("join-response", "", "", TRUE, cl2[ws].permission, "")
            IN [c EXCEPT !.cl = cl2, !.out = SendTo(c.rdy, @, ws, rsp)]

\* A join-response that keeps the pending entry and ignores the permission.
HandleJoinResponseKept(ws, c, m) ==
  IF m.userId \notin DOMAIN c.pa THEN c
  ELSE LET targetWs == c.pa[m.userId]
       IN IF targetWs \notin DOMAIN c.cl THEN c
          ELSE [c EXCEPT !.cl[targetWs].approved = m.approved,
                         !.out = SendTo(c.rdy, @, targetWs,
                                        Msg("join-response", "", "", m.approved,
                                            c.cl[targetWs].permission, ""))]

\* msg.type === "join-response" && client.isHost
HandleJoinResponse(ws, c, m) ==
  IF m.userId \notin DOMAIN c.pa THEN c
  ELSE LET targetWs == c.pa[m.userId]
           c1 == [c EXCEPT !.pa = DeletePending(@, m.userId)]
       IN IF targetWs \notin DOMAIN c.cl THEN c1
          ELSE LET cl2 == [c.cl EXCEPT ![targetWs].approved = m.approved,
                                       ![targetWs].permission =
                                          IF m.permission # "" THEN m.permission ELSE @]
                   rsp == Msg("join-response", "", "", m.approved,
                              cl2[targetWs].permission, "")
               IN [c1 EXCEPT !.cl = cl2, !.out = SendTo(c.rdy, @, targetWs, rsp)]

\* A kick that closes every socket of the room.
HandleKickAll(ws, c, m) ==
  [c EXCEPT !.rdy = [t \in CtlSockets |-> IF @[t] = "OPEN" THEN "CLOSING" ELSE @[t]]]

\* msg.type === "kick" && client.isHost: every socket carrying the user-id
\* is sent "kicked" and closed by the server.
HandleKick(ws, c, m) ==
  LET hit == {t \in DOMAIN c.cl : c.cl[t].userId = m.userId}
      kicked == Msg("kicked", "", "", FALSE, "", "")
  IN [c EXCEPT !.out = [t \in CtlSockets |->
                          IF t \in hit /\ c.rdy[t] = "OPEN" THEN Append(@[t], kicked) ELSE @[t]],
               !.rdy = [t \in CtlSockets |->
                          IF t \in hit /\ @[t] = "OPEN" THEN "CLOSING" ELSE @[t]]]

\* A summon written to every open socket of the room.
HandleSummonAll(ws, c, m) ==
  [c EXCEPT !.out = [t \in CtlSockets |->
                       IF t \in DOMAIN c.cl /\ c.rdy[t] = "OPEN"
                         THEN Append(@[t], m) ELSE @[t]]]

\* msg.type === "summon" && msg.targetUserId !== "__all__"
HandleSummon(ws, c, m) ==
  [c EXCEPT !.out = [t \in CtlSockets |->
                       IF t \in DOMAIN c.cl /\ c.cl[t].userId = m.targetUserId
                            /\ c.rdy[t] = "OPEN"
                         THEN Append(@[t], m) ELSE @[t]]]

\* Host determination whose fallback does not look for a host.
TrackIdentityFirst(ws, c, m) ==
  LET me == c.cl[ws]
      host == IF m.userId # "" /\ me.userId = ""
                THEN IF serverRoom.hostUserId # ""
                       THEN m.userId = serverRoom.hostUserId
                       ELSE TRUE
                ELSE me.isHost
  IN [c EXCEPT !.cl[ws].isHost = host,
               !.cl[ws].userId = IF m.userId # "" THEN m.userId ELSE @,
               !.cl[ws].displayName = IF m.displayName # "" THEN m.displayName ELSE @]

\* msg.type === "presence-update": identity tracking, host determination.
TrackIdentity(ws, c, m) ==
  LET me == c.cl[ws]
      host == IF m.userId # "" /\ me.userId = ""
                THEN IF serverRoom.hostUserId # ""
                       THEN m.userId = serverRoom.hostUserId
                       ELSE FindHost(c.cl, corder) = 0
                ELSE me.isHost
  IN [c EXCEPT !.cl[ws].isHost = host,
               !.cl[ws].userId = IF m.userId # "" THEN m.userId ELSE @,
               !.cl[ws].displayName = IF m.displayName # "" THEN m.displayName ELSE @]

\* The read-only check left out.
ReadOnlyFileOpNever(me, m) == FALSE

\* "Read-only clients can't send file ops".
ReadOnlyFileOp(me, m) == m.type = "file-op" /\ me.permission = "read-only"

\* ws.on("message") of the control "connection" handler.
HandleControl(ws, c, m) ==
  LET me == c.cl[ws]
  IN IF m.type \notin ALLOWED_TYPES THEN c
     ELSE IF m.type = "join-request" THEN HandleJoinRequest(ws, c, m)
     ELSE IF m.type = "join-response" /\ me.isHost THEN HandleJoinResponse(ws, c, m)
     ELSE IF m.type = "kick" /\ me.isHost THEN HandleKick(ws, c, m)
     ELSE IF ReadOnlyFileOp(me, m) THEN c
     ELSE IF ~me.approved THEN c
     ELSE IF m.type = "summon" /\ m.targetUserId # "__all__" THEN HandleSummon(ws, c, m)
     ELSE LET c1 == IF m.type = "presence-update" THEN TrackIdentity(ws, c, m) ELSE c
          IN [c1 EXCEPT !.out = Broadcast(c1.cl, c1.rdy, @, m, ws)]

\* ---- control sockets ----------------------------------------------------
\* getOrCreateRoom(roomId) of the control engine: the room in the map, a new
\* empty one when the map has none.
GetOrCreateRoom(rms, cl, pa, ord) ==
  IF RoomId \in rms THEN [cl |-> cl, pa |-> pa, ord |-> ord]
  ELSE [cl |-> <<>>, pa |-> <<>>, ord |-> <<>>]

\* A close handler that leaves the emptied room in the map.
HandleCloseKeep(ws, c, ord, rms) ==
  [cl |-> [t \in (DOMAIN c.cl) \ {ws} |-> c.cl[t]],
   pa |-> DeletePending(c.pa, c.cl[ws].userId),
   rdy |-> [c.rdy EXCEPT ![ws] = "CLOSED"],
   out |-> IF c.cl[ws].userId # ""
             THEN Broadcast(c.cl, [c.rdy EXCEPT ![ws] = "CLOSED"], c.out,
                            Msg("presence-leave", c.cl[ws].userId, "", FALSE, "", ""), ws)
             ELSE c.out,
   ord |-> SelectSeq(ord, LAMBDA t : t # ws),
   rooms |-> rms]

\* ws.on("close") of the control engine: the pending entry under the socket's
\* user-id is dropped, the others are told, the socket leaves the room and
\* an empty room leaves the map.
HandleClose(ws, c, ord, rms) ==
  [cl |-> [t \in (DOMAIN c.cl) \ {ws} |-> c.cl[t]],
   pa |-> DeletePending(c.pa, c.cl[ws].userId),
   rdy |-> [c.rdy EXCEPT ![ws] = "CLOSED"],
   out |-> IF c.cl[ws].userId # ""
             THEN Broadcast(c.cl, [c.rdy EXCEPT ![ws] = "CLOSED"], c.out,
                            Msg("presence-leave", c.cl[ws].userId, "", FALSE, "", ""), ws)
             ELSE c.out,
   ord |-> SelectSeq(ord, LAMBDA t : t # ws),
   rooms |-> IF (DOMAIN c.cl) \ {ws} = {} THEN rms \ {RoomId} ELSE rms]

\* The control room still holds a reference to socket s.
CtlReferenced(s) ==
  s \in DOMAIN cclients \/ \E k \in DOMAIN pendingApprovals : pendingApprovals[k] = s

\* wss.on("connection") of the control engine.  Sockets are interchangeable:
\* the next connection takes the lowest index the room holds no reference to.
CtlConnect(s) ==
  /\ cready[s] = "CLOSED"
  /\ ~CtlReferenced(s)
  /\ \A t \in CtlSockets : t < s => cready[t] # "CLOSED" \/ CtlReferenced(t)
  /\ \E room \in {GetOrCreateRoom(controlRooms, cclients, pendingApprovals, corder)} :
        /\ cclients' = [t \in (DOMAIN room.cl) \cup {s} |->
                          IF t = s THEN NewControlClient ELSE room.cl[t]]
        /\ corder' = Append(room.ord, s)
        /\ pendingApprovals' = room.pa
  /\ controlRooms' = controlRooms \cup {RoomId}
  /\ cready' = [cready EXCEPT ![s] = "OPEN"]
  /\ cout' = [t \in CtlSockets |-> <<>>]
  /\ identified' = [identified EXCEPT ![s] = FALSE]
  /\ Handoff("control")
  /\ UNCHANGED <<serverRoom, recording, yvars, pvars, mvars>>

\* ws.on("message"): socket s delivers message m.
CtlMessage(s, m) ==
  /\ s \in DOMAIN cclients
  /\ cready[s] \in {"OPEN", "CLOSING"}
  /\ \E r \in {HandleControl(s, CtlState, m)} :
        /\ cclients' = r.cl
        /\ pendingApprovals' = r.pa
        /\ cready' = r.rdy
        /\ cout' = r.out
  /\ identified' = IF recording /\ m.type = "presence-update" /\ m.userId # ""
                      THEN [identified EXCEPT ![s] = TRUE] ELSE identified
  /\ UNCHANGED <<serverRoom, controlRooms, corder, recording, yvars, gvars, pvars, mvars>>

\* ---- frames that are not control messages -------------------------------
\* The texts a socket can send that carry no string type: text that is not
\* JSON, the JSON values null, a number, a string and an array, an object
\* without a type and an object whose type is a number.
BadFrames == {"not-json", "null", "number", "string", "array", "no-type", "number-type"}

\* JSON.parse(data.toString()): the kind of value it returns, "SyntaxError"
\* when it throws.
JsonParse(f) ==
  IF f = "not-json" THEN "SyntaxError"
  ELSE IF f \in {"no-type", "number-type"} THEN "object"
  ELSE f

\* typeof msg.type: reading a property of null throws a TypeError; numbers,
\* strings and arrays have no property "type".
TypeofType(f) ==
  IF JsonParse(f) = "null" THEN "TypeError"
  ELSE IF f = "number-type" THEN "number"
  ELSE "undefined"

\* How the "message" listener ends on frame f: the try/catch around
\* JSON.parse returns on a SyntaxError, the test of msg.type stands outside
\* of it.
FrameOutcome(f) ==
  IF JsonParse(f) = "SyntaxError" THEN "return"
  ELSE IF TypeofType(f) = "TypeError" THEN "throw"
  ELSE "return"

\* ws.on("message"): socket s delivers a frame without a string type.  An
\* exception that leaves the listener is caught nowhere (no handler for
\* uncaughtException is installed), so the process ends: every room and every
\* socket is gone.  The CRDT engine's rooms die with the process too; the
\* step is taken where that engine holds none.
CtlFrame(s, f) ==
  /\ s \in DOMAIN cclients
  /\ cready[s] \in {"OPEN", "CLOSING"}
  /\ cout' = [t \in CtlSockets |-> <<>>]
  /\ IF FrameOutcome(f) = "throw"
       THEN /\ shutdown' = "crashed"
            /\ cclients' = <<>>
            /\ corder' = <<>>
            /\ pendingApprovals' = <<>>
            /\ controlRooms' = {}
            /\ cready' = [t \in CtlSockets |-> "CLOSED"]
            /\ identified' = [t \in CtlSockets |-> FALSE]
       ELSE UNCHANGED <<shutdown, cclients, corder, pendingApprovals, controlRooms,
                        cready, identified>>
  /\ UNCHANGED <<store, rooms, roomStates, pendingRooms, stage, ready, sroom,
                 toClient, toServer, cdoc, cstep1, csynced, delivery, announced,
                 closing, serverRoom, recording, gvars, pvars, mvars>>

\* ws.on("close"): socket s closes.  A room that has left the map is
\* referenced by no socket any more; its clients and pending approvals are
\* dropped with it.
CtlClose(s) ==
  /\ s \in DOMAIN cclients
  /\ \E r \in {HandleClose(s, CtlState, corder, controlRooms)} :
        /\ cready' = r.rdy
        /\ cout' = r.out
        /\ controlRooms' = r.rooms
        /\ \E room \in {GetOrCreateRoom(r.rooms, r.cl, r.pa, r.ord)} :
              /\ cclients' = room.cl
              /\ pendingApprovals' = room.pa
              /\ corder' = room.ord
  /\ identified' = [identified EXCEPT ![s] = FALSE]
  /\ UNCHANGED <<serverRoom, recording, yvars, gvars, pvars, mvars>>

\* ---- messages arriving on control sockets ------------------------------
\* The display name a client shows for a user-id.
NameOf(u) == IF u = "" THEN "" ELSE "n"

\* The answers a host gives: approve (the permission stays the room's
\* default) or deny.
Answers == {<<TRUE, "">>, <<FALSE, "">>}

CtlInputs ==
  {Msg("join-request", u, "", FALSE, "", NameOf(u)) : u \in UserIds \cup {""}}
    \cup {Msg("join-response", u, "", a[1], a[2], "") : u \in UserIds \cup {""}, a \in Answers}
    \cup {Msg("kick", u, "", FALSE, "", "") : u \in UserIds \cup {""}}
    \cup {Msg("summon", "", u, FALSE, "", "") : u \in UserIds \cup {"__all__"}}
    \cup {Msg("presence-update", u, "", FALSE, "", NameOf(u)) : u \in UserIds \cup {""}}
    \cup {Msg(t, "", "", FALSE, "", "") : t \in {"file-op", "session-end", "ping"}}

\* ---- specifications -----------------------------------------------------
NoRoomRecord == [hostUserId |-> "", requireApproval |-> FALSE, defaultPermission |-> ""]
\* The room exists and identity auth is on.
Registered == registry = {RoomId} /\ requireAuth
Eager == Init /\ delivery = "eager" /\ serverRoom = NoRoomRecord /\ ~recording /\ Registered
Queued == Init /\ delivery = "queued" /\ serverRoom = NoRoomRecord /\ ~recording /\ Registered
CtlInit == Init /\ delivery = "eager" /\ store = {} /\ ~recording /\ Registered
\* Rooms of every host and approval policy, with the identification history.
HostInit == Init /\ delivery = "eager" /\ store = {} /\ recording /\ Registered
              /\ serverRoom.defaultPermission = ""
\* Both engines behind the gateway, with and without the room and the
\* identity auth.
GwInit == Init /\ delivery = "eager" /\ store = {} /\ serverRoom = NoRoomRecord /\ ~recording

\* Connects, disconnects, loads, the idle timer and the cleanup.
Server ==
  \/ \E s \in Sockets : ConnectExisting(s)
  \/ \E s \in Sockets : ConnectPending(s)
  \/ \E s \in Sockets : ConnectCreate(s)
  \/ \E o \in 1..MaxObjs : LoadDone(o)
  \/ \E s \in Sockets : Close(s)
  \/ \E o \in 1..MaxObjs : IdleTimerFire(o)
  \/ \E o \in 1..MaxObjs : CleanupDone(o)

\* The persist timer is armed by replica updates only, so it is part of the
\* specification whose clients send sync frames.
SyncNext ==
  \/ Server
  \/ \E o \in 1..MaxObjs : PersistTimerFire(o)
  \/ \E s \in Sockets, f \in SyncInputs : Recv(s, f) /\ UNCHANGED toServer
AwNext == Server \/ \E s \in Sockets, f \in AwInputs : Recv(s, f) /\ UNCHANGED toServer
FileOpNext == Server \/ \E s \in Sockets, f \in FileOpInputs : Recv(s, f) /\ UNCHANGED toServer

\* Every interleaving of connects and updates of protocol-following clients.
ConvNext ==
  \/ \E s \in Sockets : ConnectExisting(s)
  \/ \E s \in Sockets : ConnectPending(s)
  \/ \E s \in Sockets : ConnectCreate(s)
  \/ \E o \in 1..MaxObjs : LoadDone(o)
  \/ \E o \in 1..MaxObjs : PersistTimerFire(o)
  \/ \E s \in Sockets : ServerRecv(s)
  \/ \E s \in Sockets : ServerDrop(s)
  \/ \E s \in Sockets : ClientStep1(s)
  \/ \E s \in Sockets : ClientEdit(s)
  \/ \E s \in Sockets : ClientRecv(s)

SyncSpec == Eager /\ [][SyncNext]_vars
AwSpec == Eager /\ [][AwNext]_vars
FileOpSpec == Eager /\ [][FileOpNext]_vars
ConvSpec == Queued /\ [][ConvNext]_vars

\* The CRDT engine until the graceful shutdown has completed (the process
\* then exits).
StoreNext ==
  \/ shutdown # "done" /\ \E s \in Sockets : ConnectExisting(s)
  \/ shutdown # "done" /\ \E s \in Sockets : ConnectPending(s)
  \/ shutdown # "done" /\ \E s \in Sockets : ConnectCreate(s)
  \/ shutdown # "done" /\ \E o \in 1..MaxObjs : LoadDone(o)
  \/ shutdown # "done" /\ \E s \in Sockets : Close(s)
  \/ shutdown # "done" /\ \E o \in 1..MaxObjs : IdleTimerFire(o)
  \/ shutdown # "done" /\ \E o \in 1..MaxObjs : CleanupDone(o)
  \/ shutdown # "done" /\ \E o \in 1..MaxObjs : PersistTimerFire(o)
  \/ shutdown # "done" /\ \E s \in Sockets, f \in SyncInputs : Recv(s, f) /\ UNCHANGED toServer
  \/ CloseAllRoomsStart
  \/ CloseAllRoomsDone

StoreSpec == Eager /\ [][StoreNext]_vars

\* The CRDT engine with clients that send updates and step-2 answers and
\* never read: toClient holds every frame written to a socket since it
\* connected, the log of the RoomState the order of application.
OrderInit == Init /\ delivery = "queued" /\ serverRoom = NoRoomRecord /\ recording /\ Registered

OrderInputs ==
  {UpdateFrame(u) : u \in (SUBSET Updates) \ {{}}} \cup {Step2Frame({u}) : u \in Updates}

OrderNext ==
  \/ \E s \in Sockets : ConnectExisting(s)
  \/ \E s \in Sockets : ConnectPending(s)
  \/ \E s \in Sockets : ConnectCreate(s)
  \/ \E o \in 1..MaxObjs : LoadDone(o)
  \/ \E s \in Sockets : Close(s)
  \/ \E o \in 1..MaxObjs : IdleTimerFire(o)
  \/ \E o \in 1..MaxObjs : CleanupDone(o)
  \/ \E o \in 1..MaxObjs : PersistTimerFire(o)
  \/ \E s \in Sockets, f \in OrderInputs : Recv(s, f) /\ UNCHANGED toServer

OrderSpec == OrderInit /\ [][OrderNext]_vars

\* Both engines for a room whose guests are read-only.  Participant p holds
\* control socket p and CRDT socket p; the server keeps no such link.
ReadOnlyInit ==
  Init /\ delivery = "eager" /\ store = {} /\ ~recording /\ Registered
       /\ serverRoom.defaultPermission = "read-only" /\ ~serverRoom.requireApproval

\* The writes a client can send on the CRDT socket.
WriteFrames == {UpdateFrame({1}), Step2Frame({2}), FileOpFrame}

ReadOnlyInputs ==
  {Msg("file-op", "", "", FALSE, "", ""), Msg("presence-update", "a", "", FALSE, "", "n")}

ReadOnlyNext ==
  \/ \E s \in CtlSockets : CtlConnect(s)
  \/ \E s \in CtlSockets, m \in ReadOnlyInputs : CtlMessage(s, m)
  \/ \E s \in CtlSockets : CtlClose(s)
  \/ \E s \in Sockets : ConnectExisting(s)
  \/ \E s \in Sockets : ConnectPending(s)
  \/ \E s \in Sockets : ConnectCreate(s)
  \/ \E o \in 1..MaxObjs : LoadDone(o)
  \/ \E s \in Sockets : Close(s)
  \/ \E s \in Sockets, f \in WriteFrames : Recv(s, f) /\ UNCHANGED toServer

ReadOnlySpec == ReadOnlyInit /\ [][ReadOnlyNext]_vars

\* The CRDT engine of a process that receives shutdown signals, until it
\* exits; the clients send an update frame.  A RoomState is created and
\* loaded while the store is open.
ShutdownInputs == {UpdateFrame({1})}

ShutdownNext ==
  \/ shutdown = "running" /\ \E s \in Sockets : ConnectExisting(s)
  \/ shutdown = "running" /\ \E s \in Sockets : ConnectPending(s)
  \/ shutdown = "running" /\ dbStatus = "open" /\ \E s \in Sockets : ConnectCreate(s)
  \/ shutdown = "running" /\ dbStatus = "open" /\ \E o \in 1..MaxObjs : LoadDone(o)
  \/ shutdown = "running" /\ \E s \in Sockets : Close(s)
  \/ shutdown = "running" /\ \E o \in 1..MaxObjs : IdleTimerFire(o)
  \/ shutdown = "running" /\ \E o \in 1..MaxObjs : CleanupDone(o)
  \/ shutdown = "running" /\ \E o \in 1..MaxObjs : PersistTimerFire(o)
  \/ shutdown = "running" /\ \E s \in Sockets, f \in ShutdownInputs : Recv(s, f) /\ UNCHANGED toServer
  \/ \E i \in 1..MaxSignals : ShutdownCall(i)
  \/ \E i \in 1..MaxSignals : PersistResolved(i)
  \/ StoreClosed

ShutdownSpec == Eager /\ [][ShutdownNext]_vars

\* The CRDT engine with a store whose writes can fail.  The clients are
\* silent while cleanupRoom or closeAllRooms awaits its persist.
Quiet ==
  /\ \A o \in 1..Len(rooms) : rooms[o].cleaning = 0
  /\ \A i \in 1..MaxSignals : shutdownCalls[i].pc \notin {"persisting", "rejecting"}

FailNext ==
  \/ shutdown = "running" /\ dbStatus = "open" /\ \E s \in Sockets : ConnectExisting(s)
  \/ shutdown = "running" /\ dbStatus = "open" /\ \E s \in Sockets : ConnectPending(s)
  \/ shutdown = "running" /\ dbStatus = "open" /\ \E s \in Sockets : ConnectCreate(s)
  \/ shutdown = "running" /\ dbStatus = "open" /\ \E o \in 1..MaxObjs : LoadDone(o)
  \/ shutdown = "running" /\ \E s \in Sockets : Close(s)
  \/ shutdown = "running" /\ \E o \in 1..MaxObjs : IdleTimerFire(o)
  \/ shutdown = "running" /\ \E o \in 1..MaxObjs : IdleTimerReject(o)
  \/ shutdown = "running" /\ \E o \in 1..MaxObjs : CleanupDone(o)
  \/ shutdown = "running" /\ \E o \in 1..MaxObjs : PersistTimerFire(o)
  \/ shutdown = "running" /\ \E o \in 1..MaxObjs : PersistTimerReject(o)
  \/ shutdown = "running" /\ Quiet
       /\ \E s \in Sockets, f \in ShutdownInputs : Recv(s, f) /\ UNCHANGED toServer
  \/ ShutdownCall(1)
  \/ ShutdownCallReject(1)
  \/ PersistResolved(1)
  \/ StoreClosed

FailSpec == Eager /\ [][FailNext]_vars

\* The running server with a clock: connects, loads, sync frames, and the
\* persist timer firing when it is due.
StaleNext ==
  \/ \E s \in Sockets : ConnectExisting(s)
  \/ \E s \in Sockets : ConnectPending(s)
  \/ \E s \in Sockets : ConnectCreate(s)
  \/ \E o \in 1..MaxObjs : LoadDone(o)
  \/ \E o \in 1..MaxObjs : PersistDue(o) /\ PersistTimerFire(o)
  \/ \E s \in Sockets, f \in SyncInputs : Recv(s, f) /\ UNCHANGED toServer
  \/ Tick

StaleSpec == Eager /\ [][StaleNext]_vars

\* Upgrade requests of every kind, and the sockets closing again.
GwNext ==
  \/ \E r \in Requests : Reject(r)
  \/ \E s \in Sockets : ConnectExisting(s)
  \/ \E s \in Sockets : ConnectPending(s)
  \/ \E s \in Sockets : ConnectCreate(s)
  \/ \E o \in 1..MaxObjs : LoadDone(o)
  \/ \E s \in Sockets : Close(s)
  \/ \E s \in CtlSockets : CtlConnect(s)
  \/ \E s \in CtlSockets : CtlClose(s)

GwSpec == GwInit /\ [][GwNext]_vars

\* Upgrade requests for the room, its document and an unknown room, with
\* and without the room token.
RegRequests ==
  {Request(p, n, t, "valid") : p \in {"/ws/", "/control/"},
                               n \in {RoomId, DocName, <<"r0">>},
                               t \in {RoomToken, "t0"}}
    \ {Request("/ws/", RoomId, t, "valid") : t \in {RoomToken, "t0"}}

\* The /rooms router next to the gateway: requests to the router, upgrades
\* that are refused and upgrades that reach an engine.
RegNext ==
  \/ \E r \in RegRequests : Reject(r)
  \/ \E s \in Sockets : ConnectExisting(s)
  \/ \E s \in Sockets : ConnectCreate(s)
  \/ \E o \in 1..MaxObjs : LoadDone(o)
  \/ \E s \in CtlSockets : CtlConnect(s)
  \/ \E a \in AuthHeaders, id \in HttpIds : HttpDelete(a, id)
  \/ \E id \in HttpIds, t \in Tokens : HttpJoin(id, t)
  \/ \E id \in HttpIds : HttpGet(id)

RegSpec == GwInit /\ [][RegNext]_vars

\* Sockets that connect and close, the load, the idle timer and the cleanup,
\* where a load that was started completes: p.loadDoc settles and the event
\* loop runs the continuation of createRoom.
LoadFairNext ==
  \/ \E s \in Sockets : ConnectExisting(s)
  \/ \E s \in Sockets : ConnectPending(s)
  \/ \E s \in Sockets : ConnectCreate(s)
  \/ \E o \in 1..MaxObjs : LoadDone(o)
  \/ \E s \in Sockets : Close(s)
  \/ \E o \in 1..MaxObjs : IdleTimerFire(o)
  \/ \E o \in 1..MaxObjs : CleanupDone(o)

LoadFairSpec ==
  Eager /\ [][LoadFairNext]_vars /\ WF_vars(\E o \in 1..MaxObjs : LoadDone(o))

\* The CRDT engine with a store whose reads can fail, while the process
\* runs.
LoadFailNext ==
  \/ shutdown = "running" /\ \E s \in Sockets : ConnectExisting(s)
  \/ shutdown = "running" /\ \E s \in Sockets : ConnectPending(s)
  \/ shutdown = "running" /\ \E s \in Sockets : ConnectCreate(s)
  \/ shutdown = "running" /\ \E o \in 1..MaxObjs : LoadDone(o)
  \/ shutdown = "running" /\ \E o \in 1..MaxObjs : LoadFail(o)
  \/ shutdown = "running" /\ \E s \in Sockets : Close(s)
  \/ shutdown = "running" /\ \E o \in 1..MaxObjs : IdleTimerFire(o)
  \/ shutdown = "running" /\ \E o \in 1..MaxObjs : CleanupDone(o)

LoadFailSpec == Eager /\ [][LoadFailNext]_vars

\* Tokens of every kind: none, the room token, an ASCII token of the same
\* length and one of the same length with a character outside ASCII.
AllTokens == Tokens \cup {WideToken}

TokenRequests ==
  {Request(p, n, t, "valid") : p \in {"/ws/", "/control/"}, n \in {RoomId, DocName},
                               t \in AllTokens}
    \ {Request("/ws/", RoomId, t, "valid") : t \in AllTokens}

\* The token checks of the gateway and of the /rooms router while the
\* process runs.
TokenNext ==
  \/ shutdown = "running" /\ \E r \in TokenRequests : Reject(r)
  \/ shutdown = "running" /\ \E r \in TokenRequests : UpgradeThrows(r)
  \/ shutdown = "running" /\ \E s \in CtlSockets : CtlConnect(s)
  \/ shutdown = "running" /\ \E s \in CtlSockets : CtlClose(s)
  \/ shutdown = "running" /\ \E id \in HttpIds, t \in AllTokens : HttpJoin(id, t)
  \/ shutdown = "running" /\ \E id \in HttpIds, t \in AllTokens :
                                HttpDelete(Header("Bearer ", t), id)

TokenSpec == GwInit /\ [][TokenNext]_vars

\* The manager under every sequence of events, subscriptions and
\* unsubscriptions.
CsmNext ==
  \/ \E e \in Events : Transition(e)
  \/ \E l \in Listeners : OnChange(l)
  \/ \E l \in Listeners : Unsubscribe(l)

CsmSpec == Eager /\ [][CsmNext]_vars

\* A client that has told the room a user-id keeps sending it: a
\* join-request without user-id comes from a socket recorded without one.
CtlSends(s, m) ==
  (m.type = "join-request" /\ m.userId = "") =>
     (s \in DOMAIN cclients /\ cclients[s].userId = "")

\* The control room of one room id under every room record.
CtlNext ==
  \/ \E s \in CtlSockets : CtlConnect(s)
  \/ \E s \in CtlSockets, m \in CtlInputs : CtlSends(s, m) /\ CtlMessage(s, m)
  \/ \E s \in CtlSockets : CtlClose(s)

CtlSpec == CtlInit /\ [][CtlNext]_vars

\* The messages that write the identity of a connection or decide on it.
\* Frames whose type is a string outside ALLOWED_TYPES.
UnknownFrames ==
  {Msg("ping", "", "", FALSE, "", ""), Msg("", "", "", FALSE, "", ""),
   Msg("presence-leave", "a", "", FALSE, "", "")}

\* Control rooms that receive, next to a few control messages, frames of
\* every kind that is not a control message, until the process ends.
FrameInputs ==
  UnknownFrames
    \cup {Msg("join-request", "a", "", FALSE, "", "n"),
          Msg("file-op", "", "", FALSE, "", "")}
    \cup {Msg("presence-update", u, "", FALSE, "", "n") : u \in UserIds}

FrameNext ==
  \/ shutdown = "running" /\ \E s \in CtlSockets : CtlConnect(s)
  \/ shutdown = "running" /\ \E s \in CtlSockets, m \in FrameInputs : CtlMessage(s, m)
  \/ shutdown = "running" /\ \E s \in CtlSockets, f \in BadFrames : CtlFrame(s, f)
  \/ shutdown = "running" /\ \E s \in CtlSockets : CtlClose(s)

FrameSpec == CtlInit /\ [][FrameNext]_vars

HostInputs == {m \in CtlInputs : m.type \in {"join-request", "join-response", "presence-update"}}

HostNext ==
  \/ \E s \in CtlSockets : CtlConnect(s)
  \/ \E s \in CtlSockets, m \in HostInputs : CtlMessage(s, m)
  \/ \E s \in CtlSockets : CtlClose(s)

HostSpec == HostInit /\ [][HostNext]_vars

\* Rooms that require approval, with hosts whose answer may carry a
\* permission.
ApprovalInit == CtlInit /\ serverRoom.requireApproval

Decisions == {<<a, p>> : a \in BOOLEAN, p \in {"", "read-only", "read-write"}}

\* The join-requests and join-responses a socket can send.
ApprovalFrames ==
  {Msg("join-request", u, "", FALSE, "", NameOf(u)) : u \in UserIds \cup {""}}
    \cup {Msg("join-response", u, "", d[1], d[2], "") : u \in UserIds \cup {""}, d \in Decisions}

\* The frames delivered in ApprovalSpec: those that name a user.
ApprovalInputs ==
  {m \in ApprovalFrames : m.userId # ""}
    \cup {Msg("presence-update", u, "", FALSE, "", NameOf(u)) : u \in UserIds}

ApprovalNext ==
  \/ \E s \in CtlSockets : CtlConnect(s)
  \/ \E s \in CtlSockets, m \in ApprovalInputs : CtlMessage(s, m)
  \/ \E s \in CtlSockets : CtlClose(s)

ApprovalSpec == ApprovalInit /\ [][ApprovalNext]_vars
\* ---- CRDT engine: claims ------------------------------------------------
\* C1: convergence.  In every state where no frame is in flight, any two
\* clients that are registered with the document and have completed the
\* sync handshake hold the same set of updates as the server replica.
Convergence ==
  (\A s \in Sockets : toClient[s] = <<>> /\ toServer[s] = <<>>) =>
    \A a \in Sockets, b \in Sockets :
      (stage[a] = "attached" /\ csynced[a] /\ stage[b] = "attached" /\ csynced[b]) =>
        /\ sroom[a] = sroom[b]
        /\ cdoc[a] = rooms[sroom[a]].doc
        /\ cdoc[b] = rooms[sroom[a]].doc

\* C1 witness: both clients are registered and synced, nothing is in
\* flight, and every edit the clients made is in the server replica.
ConvergedAfterEdits ==
  /\ \A s \in Sockets : stage[s] = "attached" /\ csynced[s]
                          /\ toClient[s] = <<>> /\ toServer[s] = <<>>
  /\ roomStates # 0
  /\ Used = Updates
  /\ Updates \subseteq rooms[roomStates].doc

\* C3: at most one creator.  While a creation is pending no second
\* RoomState is constructed, and when the load completes every socket
\* that connected meanwhile is in the client set of that one RoomState,
\* which becomes the document's entry.
AtMostOneCreator ==
  [][/\ pendingRooms # 0 => Len(rooms') = Len(rooms)
     /\ \A o \in 1..Len(rooms) :
          (~rooms[o].loaded /\ rooms'[o].loaded) =>
             /\ pendingRooms = o
             /\ roomStates' = o
             /\ rooms'[o].clients = {s \in Sockets : stage[s] = "awaiting"}]_vars

\* C3 witness: the load has just completed with every socket waiting on
\* it; all of them were registered in the same step.
AllJoinedOneRoom ==
  /\ roomStates # 0
  /\ Len(rooms) = 1
  /\ rooms[roomStates].clients = Sockets
  /\ \A s \in Sockets : stage[s] = "attached" /\ toClient[s] # <<>>
                          /\ Head(toClient[s]) = Step1Frame(rooms[roomStates].doc)

\* C4: a RoomState is destroyed, and the document's entry removed from
\* roomStates, only in a state where its client set is empty.
DestroyedOnlyEmpty ==
  [][\A o \in 1..Len(rooms) :
       /\ (~rooms[o].destroyed /\ rooms'[o].destroyed) => rooms[o].clients = {}
       /\ (roomStates = o /\ roomStates' = 0) => rooms[o].clients = {}]_vars

\* C2, as stated: whenever a sync frame from socket S changes the replica it
\* is registered with, the update frame is written to every other OPEN
\* socket of the client set and not to S.
NoSelfEcho ==
  \A s \in Sockets :
    (stage[s] = "attached" /\ ready[s] = "OPEN") =>
      \A f \in {x \in SyncInputs : x.k # 1 /\ x.u \ rooms[sroom[s]].doc # {}} :
         LET q == HandleMessage(s, rooms[sroom[s]], Out, f).q
         IN /\ q[s] = <<>>
            /\ \A t \in rooms[sroom[s]].clients \ {s} :
                 ready[t] = "OPEN" =>
                    q[t] = <<UpdateFrame(f.u \ rooms[sroom[s]].doc)>>

\* C5, as stated: the close of the last socket starts the idle timer; the
\* timer firing with no client persists the document and the cleanup then
\* removes the entry; a socket that connects cancels the pending timer.
IdleDestruction ==
  [][/\ \A s \in Sockets :
          (stage[s] = "attached" /\ stage'[s] = "closed"
             /\ rooms'[sroom[s]].clients = {}) =>
            rooms'[sroom[s]].cleanupTimer = "pending"
     /\ \A o \in 1..Len(rooms) :
          /\ (rooms[o].cleanupTimer = "pending" /\ rooms'[o].cleanupTimer = "fired"
                /\ rooms[o].clients = {}) =>
               (store' = rooms[o].doc /\ rooms'[o].cleaning = rooms[o].cleaning + 1)
          /\ rooms'[o].cleaning < rooms[o].cleaning => roomStates' = 0
     /\ \A s \in Sockets :
          (stage[s] \in {"idle", "closed"} /\ stage'[s] \in {"awaiting", "attached"}) =>
            \A o \in 1..Len(rooms) : rooms'[o].cleanupTimer # "pending"]_vars

\* C6, as stated: right after the close handler of socket S has run, no id
\* S announced is in the awareness state of its RoomState and S has no
\* entry in clientAwarenessIds.
AwarenessCleanup ==
  [][\A s \in Sockets :
       (stage[s] = "attached" /\ stage'[s] = "closed") =>
         /\ announced[s] \cap rooms'[sroom[s]].awStates = {}
         /\ s \notin DOMAIN rooms'[sroom[s]].clientAwarenessIds]_vars

HostOnlyCommands ==
  [][\A s \in DOMAIN cclients :
       ~cclients[s].isHost =>
         \A m \in {x \in CtlInputs : x.type \in {"kick", "join-response"}} :
            CtlMessage(s, m) =>
              /\ UNCHANGED <<cclients, corder, pendingApprovals, cready>>
              /\ \A t \in CtlSockets : cout'[t] = <<>>]_vars

\* C9: in a room that requires approval a connection starts unapproved, and
\* a message other than a join-request sent by an unapproved socket is
\* delivered to no socket.
ApprovalGating ==
  [][serverRoom.requireApproval =>
       /\ \A s \in CtlSockets : CtlConnect(s) => ~cclients'[s].approved
       /\ \A s \in DOMAIN cclients :
            ~cclients[s].approved =>
              \A m \in {x \in CtlInputs : x.type # "join-request"} :
                 CtlMessage(s, m) => \A t \in CtlSockets : cout'[t] = <<>>]_vars

\* C10: a socket that is the host stays the host for as long as its
\* connection is in the room.
HostFlagMonotonic ==
  [][\A s \in DOMAIN cclients :
       (cclients[s].isHost /\ s \in DOMAIN cclients') => cclients'[s].isHost]_vars

\* C11: the first presence-update carrying a user-id that an approved socket
\* delivers makes it the host exactly when the user-id is the room's
\* hostUserId or, in a room without hostUserId, when no other socket of the
\* room is the host; a later presence-update leaves the host flag as it is.
HostDetermination ==
  \A s \in DOMAIN cclients :
    (cready[s] \in {"OPEN", "CLOSING"} /\ cclients[s].approved) =>
      \A m \in {x \in CtlInputs : x.type = "presence-update" /\ x.userId # ""} :
         HandleControl(s, CtlState, m).cl[s].isHost =
           IF identified[s] THEN cclients[s].isHost
           ELSE IF serverRoom.hostUserId # "" THEN m.userId = serverRoom.hostUserId
           ELSE \A t \in DOMAIN cclients \ {s} : ~cclients[t].isHost

\* C12: every snapshot written to the store contains the snapshot it
\* replaces, and when an idle cleanup or the graceful shutdown completes the
\* stored snapshot contains every update applied to the replica it closed.
SnapshotMonotonic ==
  [][/\ store \subseteq store'
     /\ \A o \in 1..Len(rooms) :
          rooms'[o].cleaning < rooms[o].cleaning => rooms'[o].doc \subseteq store'
     /\ (shutdown = "persisting" /\ shutdown' = "done") =>
          rooms'[closing].doc \subseteq store']_vars

\* C13: while the server runs, every update that was applied to a replica
\* more than persistDebounce ago is in the stored snapshot.
BoundedStaleness ==
  \A o \in 1..Len(rooms) :
    \A u \in Updates : rooms[o].age[u] > PersistDebounce => u \in store

\* ---- gateway: claims ----------------------------------------------------
\* The request names an existing room on the given route with the room's
\* token and, when identity auth is on, an accepted jwt.
Authentic(r, prefix, roomId) ==
  /\ r.prefix = prefix
  /\ r.name # <<>>
  /\ roomId \in registry
  /\ r.token = RoomToken
  /\ requireAuth => r.jwt = "valid"

Relayed == {Msg(t, "", "", FALSE, "", "") : t \in {"follow-update", "session-end", "focus-request"}}

ControlBroadcast ==
  \A s \in DOMAIN cclients :
    (cready[s] \in {"OPEN", "CLOSING"} /\ cclients[s].approved) =>
      \A m \in Relayed \cup {x \in CtlInputs : x.type = "presence-update"} :
        \E r \in {HandleControl(s, CtlState, m)} :
          \A t \in CtlSockets :
            r.out[t] = IF t \in DOMAIN cclients /\ t # s /\ cclients[t].approved
                            /\ cready[t] = "OPEN"
                         THEN <<m>> ELSE <<>>

\* C16 witness: a session-end sent by an approved socket has just been
\* written to the other approved socket and not to the sender.
SessionEndRelayed ==
  \E s \in DOMAIN cclients, t \in DOMAIN cclients :
     /\ s # t
     /\ cclients[s].approved /\ cclients[t].approved
     /\ cclients[s].userId # "" /\ cclients[t].userId # ""
     /\ cout[s] = <<>>
     /\ cout[t] = <<Msg("session-end", "", "", FALSE, "", "")>>

\* C17: in a room without requireApproval a join-request from socket S
\* records the user-id and display name it carries, leaves S approved and
\* every other record and the pending approvals as they are, answers S
\* with a join-response carrying approved = true and S's permission, and
\* writes nothing to any other socket.
AutoApprove ==
  ~serverRoom.requireApproval =>
    \A s \in DOMAIN cclients :
      cready[s] = "OPEN" =>
        \A m \in {x \in CtlInputs : x.type = "join-request"} :
          \E r \in {HandleControl(s, CtlState, m)} :
            /\ cclients[s].approved
            /\ r.cl = [cclients EXCEPT ![s].userId = m.userId,
                                       ![s].displayName = m.displayName]
            /\ r.pa = pendingApprovals
            /\ r.rdy = cready
            /\ r.out[s] = <<Msg("join-response", "", "", TRUE, cclients[s].permission, "")>>
            /\ \A t \in CtlSockets \ {s} : r.out[t] = <<>>

\* C17 witness: in a room without requireApproval a socket has just been
\* answered with its read-only permission while the host got nothing.
AutoApproved ==
  \E s \in DOMAIN cclients, t \in DOMAIN cclients :
     /\ s # t
     /\ ~serverRoom.requireApproval
     /\ cclients[t].isHost
     /\ cclients[s].userId = "b" /\ cclients[s].approved
     /\ cout[s] = <<Msg("join-response", "", "", TRUE, "read-only", "")>>
     /\ cout[t] = <<>>

\* C18: in a room with requireApproval a join-request from socket G with
\* user-id U records U and the display name, clears G's approved flag, maps
\* U to G in pendingApprovals and is forwarded to a host socket if the
\* room has one, and to nobody else.  A join-response from a host naming a
\* pending user-id U removes the entry; the socket G it maps to takes the
\* answer's approved flag and its permission if it carries one, and G alone
\* is sent a join-response with its new flag and permission.  A
\* join-response naming a user-id that is not pending changes nothing and
\* sends nothing.
ApprovalFlow ==
  \A s \in DOMAIN cclients :
    cready[s] \in {"OPEN", "CLOSING"} =>
      /\ \A m \in {x \in ApprovalFrames : x.type = "join-request"} :
           \E r \in {HandleControl(s, CtlState, m)} :
             /\ r.cl = [cclients EXCEPT ![s].userId = m.userId,
                                        ![s].displayName = m.displayName,
                                        ![s].approved = FALSE]
             /\ r.pa = SetPending(pendingApprovals, m.userId, s)
             /\ r.rdy = cready
             /\ LET hosts == {t \in DOMAIN cclients : cclients[t].isHost}
                    fwd == Msg("join-request", m.userId, "", FALSE, "", m.displayName)
                IN IF hosts = {} THEN \A t \in CtlSockets : r.out[t] = <<>>
                   ELSE \E h \in hosts :
                          /\ r.out[h] = IF cready[h] = "OPEN" THEN <<fwd>> ELSE <<>>
                          /\ \A t \in CtlSockets \ {h} : r.out[t] = <<>>
      /\ cclients[s].isHost =>
           \A m \in {x \in ApprovalFrames : x.type = "join-response"} :
             \E r \in {HandleControl(s, CtlState, m)} :
               IF m.userId \notin DOMAIN pendingApprovals
                 THEN r = CtlState
                 ELSE LET g == pendingApprovals[m.userId]
                          perm == IF m.permission # "" THEN m.permission
                                  ELSE cclients[g].permission
                      IN /\ r.pa = DeletePending(pendingApprovals, m.userId)
                         /\ r.rdy = cready
                         /\ IF g \in DOMAIN cclients
                              THEN /\ r.cl = [cclients EXCEPT ![g].approved = m.approved,
                                                              ![g].permission = perm]
                                   /\ r.out[g] =
                                        IF cready[g] = "OPEN"
                                          THEN <<Msg("join-response", "", "", m.approved, perm, "")>>
                                          ELSE <<>>
                                   /\ \A t \in CtlSockets \ {g} : r.out[t] = <<>>
                              ELSE /\ r.cl = cclients
                                   /\ \A t \in CtlSockets : r.out[t] = <<>>

\* C18 witness: the host has just approved the pending guest with a
\* permission other than the room's default, and the guest was told.
GuestApproved ==
  \E s \in DOMAIN cclients, g \in DOMAIN cclients :
     /\ s # g
     /\ cclients[s].isHost /\ cclients[s].approved
     /\ serverRoom.defaultPermission = "read-only"
     /\ cclients[g].userId = "b" /\ cclients[g].approved
     /\ cclients[g].permission = "read-write"
     /\ "b" \notin DOMAIN pendingApprovals
     /\ cout[g] = <<Msg("join-response", "", "", TRUE, "read-write", "")>>
     /\ cout[s] = <<>>
\* C19: a summon from an approved socket with a targetUserId other than
\* "__all__" is written to the open sockets whose recorded user-id equals
\* the target (the sender's own socket and unapproved sockets included) and
\* to no other socket; a summon to "__all__" is written to every other
\* approved open socket and not to the sender.  Either way the frame is
\* passed on as it came and the room's state stays as it was.
SummonFrames ==
  {Msg("summon", "", u, FALSE, "", "") : u \in UserIds \cup {"", "__all__"}}

SummonRouting ==
  \A s \in DOMAIN cclients :
    cclients[s].approved /\ cready[s] \in {"OPEN", "CLOSING"} =>
      \A m \in SummonFrames :
        \E r \in {HandleControl(s, CtlState, m)} :
          /\ r.cl = cclients /\ r.pa = pendingApprovals /\ r.rdy = cready
          /\ \A t \in CtlSockets :
                r.out[t] =
                  IF /\ t \in DOMAIN cclients
                     /\ cready[t] = "OPEN"
                     /\ IF m.targetUserId # "__all__"
                          THEN cclients[t].userId = m.targetUserId
                          ELSE t # s /\ cclients[t].approved
                    THEN <<m>> ELSE <<>>

\* A summon for user "a" has reached the socket of "a" and not the socket of
\* "b", which is open and approved as well.
SummonRouted ==
  \E t, o \in DOMAIN cclients :
    /\ cclients[t].userId = "a" /\ cclients[o].userId = "b"
    /\ cclients[o].approved /\ cready[o] = "OPEN"
    /\ cout[t] = <<Msg("summon", "", "a", FALSE, "", "")>>
    /\ cout[o] = <<>>

\* C20: a frame on a control socket that is not parseable JSON, has no
\* string type or has a type outside ALLOWED_TYPES leaves the client
\* records, the client set, pendingApprovals and the sockets as they were
\* and writes no message to any socket.
SilentDrop ==
  [][(\E s \in CtlSockets :
        \/ \E f \in BadFrames : CtlFrame(s, f)
        \/ \E m \in UnknownFrames : CtlMessage(s, m))
       => /\ cclients' = cclients
          /\ corder' = corder
          /\ pendingApprovals' = pendingApprovals
          /\ cready' = cready
          /\ cout' = [t \in CtlSockets |-> <<>>]]_vars

\* C21: when socket S of a control room closes, S leaves the client set and
\* the records of the other sockets stay as they were; if S had a non-empty
\* user-id U every remaining approved open socket is written exactly one
\* presence-leave of U and no other socket is written anything, and without
\* a user-id nothing is written; the map of control rooms holds the room id
\* exactly when the room has a connected socket, so the room a connection
\* finds after the room emptied has no client and no pending approval.
ControlDisconnect ==
  /\ RoomId \in controlRooms <=> DOMAIN cclients # {}
  /\ RoomId \notin controlRooms =>
       \E room \in {GetOrCreateRoom(controlRooms, cclients, pendingApprovals, corder)} :
         room.cl = <<>> /\ room.pa = <<>> /\ room.ord = <<>>
  /\ \A s \in DOMAIN cclients :
       \E r \in {HandleClose(s, CtlState, corder, controlRooms)} :
         /\ DOMAIN r.cl = (DOMAIN cclients) \ {s}
         /\ \A t \in DOMAIN r.cl : r.cl[t] = cclients[t]
         /\ RoomId \in r.rooms <=> DOMAIN r.cl # {}
         /\ \A t \in CtlSockets :
               r.out[t] =
                 IF /\ cclients[s].userId # ""
                    /\ t \in DOMAIN r.cl
                    /\ cclients[t].approved
                    /\ cready[t] = "OPEN"
                   THEN <<Msg("presence-leave", cclients[s].userId, "", FALSE, "", "")>>
                   ELSE <<>>

\* A socket recorded under user-id "a" has closed and its presence-leave has
\* been written to the socket that remains.
LeaveAnnounced ==
  \E s, t \in CtlSockets :
    /\ s # t
    /\ cready[s] = "CLOSED"
    /\ t \in DOMAIN cclients
    /\ cout[t] = <<Msg("presence-leave", "a", "", FALSE, "", "")>>

\* C22: a frame of type 2 received from socket S of the document is written
\* unchanged to every other OPEN socket of the document and not to S, and
\* leaves the replica, the awareness state and the persist timer as they
\* were; a frame of a type other than 0, 1 and 2 changes nothing and is
\* written to no socket.
FileOpRelay ==
  \A s \in Sockets :
    (stage[s] = "attached" /\ ready[s] = "OPEN") =>
      /\ \A f \in FileOpFrames :
           \E r \in {HandleMessage(s, rooms[sroom[s]], Out, f)} :
             /\ r.st = rooms[sroom[s]]
             /\ \A t \in Sockets :
                   r.q[t] = IF t # s /\ stage[t] = "attached" /\ ready[t] = "OPEN"
                              THEN <<f>> ELSE <<>>
      /\ \A f \in OtherTypeFrames :
           \E r \in {HandleMessage(s, rooms[sroom[s]], Out, f)} :
             r.st = rooms[sroom[s]] /\ r.q = Out

\* C23: the first frame the server writes to an accepted socket is the sync
\* frame with the step-1 query for the replica: nothing is written to a
\* socket before the connection handler has added it to a client set, the
\* step in which it is added writes the step-1 frame first, and in that
\* step no idle timer of the document is left pending.
ConnectOrdering ==
  [][\A s \in Sockets :
       /\ stage'[s] # "attached" => toClient'[s] = <<>>
       /\ (stage[s] # "attached" /\ stage'[s] = "attached") =>
            /\ ready'[s] = "OPEN" =>
                 /\ toClient'[s] # <<>>
                 /\ Head(toClient'[s]) = Step1Frame(rooms'[sroom'[s]].doc)
            /\ \A o \in 1..Len(rooms') : rooms'[o].cleanupTimer # "pending"]_vars

\* ---- shutdown: claims ---------------------------------------------------
\* A step in which p.persistDoc is called: by the debounce timer, by the
\* idle cleanup or by closeAllRooms.
PersistIssued ==
  \/ \E o \in 1..MaxObjs : PersistTimerFire(o)
  \/ \E o \in 1..MaxObjs : IdleTimerFire(o) /\ rooms[o].clients = {}
  \/ \E i \in 1..MaxSignals :
       shutdownCalls'[i].pc = "persisting" /\ shutdownCalls'[i] # shutdownCalls[i]

\* A step in which closeAllRooms closes the sockets of RoomState o and
\* destroys its replica.
ClosedByShutdown(o) ==
  \E i \in 1..MaxSignals :
    /\ shutdownCalls[i] = [pc |-> "persisting", room |-> o]
    /\ shutdownCalls'[i] # shutdownCalls[i]

\* C24: during shutdown a RoomState's sockets are closed by the server and
\* its replica destroyed only when the persist closeAllRooms issued for it,
\* with both timers cancelled, has completed; persistence.close() is called
\* only when no persist of closeAllRooms is in flight and roomStates is
\* empty; and no persist is issued once close() has been called.
GracefulShutdownOrder ==
  [][/\ \A o \in 1..Len(rooms) :
          ClosedByShutdown(o) =>
            /\ rooms'[o].destroyed
            /\ \A s \in rooms[o].clients : ready'[s] # "OPEN"
     /\ \A s \in Sockets :
          (ready[s] = "OPEN" /\ ready'[s] = "CLOSING") => ClosedByShutdown(sroom[s])
     /\ closeCount' > closeCount =>
          /\ roomStates' = 0
          /\ \A j \in 1..MaxSignals : shutdownCalls'[j].pc # "persisting"
     /\ PersistIssued => dbStatus = "open"]_vars

\* C25: persistence.close() is called at most once while the process runs
\* and exactly once by the time it exits, whatever signals arrive.
CloseOnce ==
  /\ closeCount <= 1
  /\ shutdown = "done" => closeCount = 1

\* ---- ordering: claims ---------------------------------------------------
\* The position of update u in the application order of RoomState o
\* (0 = not applied).
Applied(o, u) ==
  IF \E p \in 1..Len(rooms[o].log) : rooms[o].log[p] = u
    THEN CHOOSE p \in 1..Len(rooms[o].log) : rooms[o].log[p] = u
    ELSE 0

ReadOnlyBothChannels ==
  \A p \in CtlSockets \cap Sockets :
    (p \in DOMAIN cclients /\ cclients[p].permission = "read-only") =>
      /\ cready[p] \in {"OPEN", "CLOSING"} =>
           \A t \in CtlSockets :
             HandleControl(p, CtlState, Msg("file-op", "", "", FALSE, "", "")).out[t] = <<>>
      /\ (stage[p] = "attached" /\ ready[p] = "OPEN") =>
           \A f \in WriteFrames :
             \E r \in {HandleMessage(p, rooms[sroom[p]], Out, f)} :
               r.st.doc = rooms[sroom[p]].doc /\ r.q = Out

\* ---- store failures: claims --------------------------------------------
\* The replica content, the client set and the awareness state of
\* RoomState o are the same after the step.
SameDocument(o) ==
  /\ rooms'[o].doc = rooms[o].doc
  /\ rooms'[o].clients = rooms[o].clients
  /\ rooms'[o].awStates = rooms[o].awStates
  /\ rooms'[o].awMeta = rooms[o].awMeta

\* C28: a p.persistDoc that rejects, called by the debounce timer, by the
\* idle cleanup or by the shutdown, leaves the replica content, the client
\* set and the awareness state as they were, and no update held only in
\* memory is discarded: the replica whose write was rejected is destroyed
\* only when the store holds its content.
StoreFailureHarmless ==
  [][/\ \A o \in 1..Len(rooms) :
          (PersistTimerReject(o) \/ IdleTimerReject(o)) => SameDocument(o)
     /\ ShutdownCallReject(1) => SameDocument(roomStates)
     /\ \A o \in 1..Len(rooms) :
          (/\ shutdownCalls[1] = [pc |-> "rejecting", room |-> o]
           /\ rooms'[o].destroyed /\ ~rooms[o].destroyed) => rooms[o].doc \subseteq store']_vars


\* ---- frames sent during the join: claims -------------------------------
\* C29: every sync update frame a client sends on an accepted socket, the
\* frames sent while the RoomState is still created or loaded included, is
\* applied to the replica the socket belongs to and written to the other
\* OPEN sockets of its client set.
NoDroppedUpdates ==
  [][\A s \in Sockets :
       (/\ Connected(s)
        /\ toServer[s] # <<>>
        /\ toServer'[s] = Tail(toServer[s])
        /\ Head(toServer[s]).t = messageSync
        /\ Head(toServer[s]).k = 3) =>
          \E u \in {Head(toServer[s]).u} :
            /\ u \subseteq rooms'[sroom[s]].doc
            /\ \A t \in rooms[sroom[s]].clients \ {s} :
                 (ready[t] = "OPEN" /\ u \ rooms[sroom[s]].doc # {}) =>
                    toClient'[t] = Append(toClient[t], UpdateFrame(u \ rooms[sroom[s]].doc))]_vars


\* ---- the room registry: claims ---------------------------------------
\* The room id an upgrade request names.
RequestRoom(r) ==
  IF r.name = <<>> THEN <<>>
  ELSE IF r.prefix = "/control/" THEN r.name
  ELSE BaseRoomId(r.name)

CallsOf(cs, l) == SelectSeq(cs, LAMBDA c : c[1] = l)

\* C31: transition(e) sets the state to the one fixed by e's type whatever
\* the state was; when the state differs from the previous one every
\* listener that was subscribed is called exactly once, with the new state
\* and e, and no other listener is called; when it does not differ nobody
\* is called; a listener whose unsubscribe function has run is not called.
TransitionNotifies ==
  [][\A e \in Events :
       Transition(e) =>
         /\ state' = Target(e.type)
         /\ \A l \in Listeners :
              CallsOf(calls', l) =
                IF state' # state /\ subscription[l] = "subscribed"
                  THEN <<(<<l, state', e>>)>>
                  ELSE <<>>
         /\ \A l \in Listeners :
              subscription[l] = "unsubscribed" => CallsOf(calls', l) = <<>>]_vars


\* ---- token comparison: claims --------------------------------------------
\* C32: safeTokenCompare answers false for every pair of different tokens,
\* pairs of equal character length included, and raises nothing: a wrong
\* token is answered 403 by POST /rooms/:id/join, the upgrade that carries
\* it is destroyed, and no exception ever ends the process.
TokenCompareTotal ==
  /\ \A a \in AllTokens, b \in AllTokens : a # b => SafeTokenCompare(a, b) = "false"
  /\ \A t \in AllTokens \ {RoomToken} :
       RoomId \in registry => RoomJoin(registry, RoomId, t) = 403
  /\ \A r \in TokenRequests : r.token # RoomToken => Route(r) = "destroy"
  /\ shutdown # "crashed"
  /\ http.status # 500

\* ---- the fallback host: claims -------------------------------------------
\* The sockets of the control room that carry the host flag.
Hosts == {s \in DOMAIN cclients : cclients[s].isHost}

\* C33: in a control room whose record has no hostUserId at most one
\* connected socket carries the host flag, in every reachable state, however
\* connects, presence-updates, join-requests and disconnects interleave.
SingleFallbackHost ==
  serverRoom.hostUserId = "" => Cardinality(Hosts) <= 1

\* A room without hostUserId in which two sockets have identified and one of
\* them is the host.
FallbackHostChosen ==
  /\ serverRoom.hostUserId = ""
  /\ Cardinality(Hosts) = 1
  /\ \E s, t \in DOMAIN cclients :
       s # t /\ cclients[s].userId # "" /\ cclients[t].userId # "" /\ ~cclients[t].isHost

\* ---- pending approvals: claims -------------------------------------------
\* C34: every entry U -> G of pendingApprovals names a socket G that is
\* still in the client set, is not approved and is recorded with user-id U;
\* so after G disconnects, or sends a second join-request with another
\* user-id, no entry refers to G under a user-id G no longer has.
PendingConsistent ==
  \A u \in DOMAIN pendingApprovals :
    LET g == pendingApprovals[u]
    IN /\ g \in DOMAIN cclients
       /\ ~cclients[g].approved
       /\ cclients[g].userId = u

\* ---- unapproved sockets: claims ------------------------------------------
\* The types of the frames a handler has written to socket t.
TypesWritten(out, t) == {out[t][i].type : i \in 1..Len(out[t])}

\* C35: a control socket whose approved flag is false is never written a
\* relayed peer message (file-op, presence-update, follow-update,
\* session-end, focus-request, summon, presence-leave); the only frames it
\* is written are join-response and kicked.
UnapprovedIsolated ==
  [][\A t \in DOMAIN cclients :
       (~cclients[t].approved /\ t \in DOMAIN cclients' /\ ~cclients'[t].approved) =>
          TypesWritten(cout', t) \subseteq {"join-response", "kicked"}]_vars

\* ---- sockets of deleted rooms: claims ------------------------------------
\* C36: every socket held by the CRDT engine or by the control engine
\* belongs to a room that is in the registry; so after a DELETE /rooms/:id
\* that succeeded no socket of the room is still connected or relaying.
EngineSocketsRegistered ==
  /\ \A s \in Sockets :
       Connected(s) => BaseRoomId(DocName) \in registry
  /\ \A s \in DOMAIN cclients :
       cready[s] = "OPEN" => RoomId \in registry

\* ---- sockets that close: claims ------------------------------------------
\* Socket s has closed after it was handed to the CRDT engine.
HasClosed(s) == sroom[s] # 0 /\ ready[s] = "CLOSED"

\* C37: every CRDT socket that closes is eventually absent from the client
\* set of its document for good, a socket that closes while the creation it
\* waits for is still loading included.
ClosedSocketLeaves ==
  \A s \in Sockets :
    [](HasClosed(s) => <>[](HasClosed(s) => s \notin rooms[sroom[s]].clients))

\* ---- one RoomState per document: claims ----------------------------------
\* C38: all sockets connected to the document are in the client set of one
\* RoomState, and that RoomState is the entry of roomStates for the name; no
\* socket is attached to a RoomState that was removed from roomStates while
\* another one exists or is being created for the name.
OneRoomState ==
  \A s \in Sockets :
    (stage[s] = "attached" /\ ready[s] = "OPEN") =>
       /\ sroom[s] = roomStates
       /\ s \in rooms[roomStates].clients

\* ---- the idle timer: claims ----------------------------------------------
\* The RoomStates of the document whose idle timer is pending.
PendingTimers == {o \in 1..Len(rooms) : rooms[o].cleanupTimer = "pending"}

\* C39: whenever an idle timer is pending for the document the client set
\* it guards is empty, and at most one idle timer is pending for the
\* document at any time.
IdleTimerDiscipline ==
  /\ \A o \in PendingTimers : rooms[o].clients = {}
  /\ Cardinality(PendingTimers) <= 1

\* ---- loads that fail: claims ---------------------------------------------
\* A connection that arrives now would start a creation of its own.
FreshCreation ==
  /\ shutdown = "running"
  /\ roomStates = 0
  /\ PendingCreation = 0

\* C40: when the load of a creation fails, roomStates and pendingRooms both
\* end without an entry for the name, every connector that waited for the
\* creation sees the failure, and a connection that arrives later starts a
\* fresh creation instead of reusing the failed one.
LoadFailureContained ==
  [][\A o \in 1..MaxObjs :
       LoadFail(o) =>
         /\ roomStates' = 0 /\ pendingRooms' = 0
         /\ \A s \in Waiting(o) : stage'[s] = "failed"
         /\ FreshCreation']_vars

====
